---- MODULE Spec2Model ----
(***************************************************************************)
(* Retell voice bridge: the per-connection call-session state machine      *)
(* (src/index.ts), the gateway WebSocket client it shares between calls    *)
(* (src/src/gateway-client.ts), caller authorization (src/unnamed/part_002)*)
(* and the embedded session-store variant of the server                    *)
(* (src/unnamed/part_001).                                                 *)
(*                                                                         *)
(* Strings the code computes on (phone numbers, call ids, session keys,    *)
(* spoken texts) are sequences of one-character strings, so that           *)
(* normalisation, lower-casing, trimming and substring search are computed *)
(* as the code computes them.  A JSON object is a record; a field that is  *)
(* absent (undefined) is a field that is not in the record's DOMAIN.       *)
(***************************************************************************)
EXTENDS Integers, Sequences, FiniteSets, TLC

\* ------------------------------------------------------------------------
\* Bounds of the model (not program constants)
\* ------------------------------------------------------------------------
\* telephony connections accepted over one run
MaxConns == 2
\* telephony frames handled over one run
MaxFrames == 3
\* content turns (backend requests) started over one run
MaxTurns == 1
\* content turns of the one call the gateway client is driven by
MaxBackendTurns == 2
\* sockets one gateway client instance opens (first connect + reconnects)
MaxSocks == 2
\* assistant-stream snapshots the backend emits for one run
MaxSnapshots == 1
\* assistant-stream snapshots per run when the gateway client is driven alone
MaxBackendSnapshots == 2
\* connections, with one content turn each, the session store is driven by
MaxStoreConns == 3
\* sockets of the gateway client when its reconnects are driven
MaxReconnectSocks == 3
\* characters put before and after the digits of a phone-number input
MaxAffix == 2
\* telephony frames handled while turns are followed to their completion
MaxLiveFrames == 2

\* ------------------------------------------------------------------------
\* Program constants
\* ------------------------------------------------------------------------
\* transcript.slice(-10)
TRANSCRIPT_WINDOW == 10

REJECT_TEXT == <<"S","o","r","r","y",","," ","t","h","i","s"," ","n","u","m","b","e","r"," ","i","s"," ","n","o","t"," ","a","u","t","h","o","r","i","z","e","d","."," ","G","o","o","d","b","y","e",".">>
HOLDING_TEXT == <<"O","n","e"," ","m","o","m","e","n","t"," ","p","l","e","a","s","e",".",".",".">>
PROMPT_TEXT == <<"I","'","m"," ","h","e","r","e","!"," ","W","h","a","t"," ","c","a","n"," ","I"," ","h","e","l","p"," ","y","o","u"," ","w","i","t","h","?">>
HICCUP_TEXT == <<"S","o","r","r","y",","," ","I"," ","h","a","d"," ","a"," ","b","r","i","e","f"," ","h","i","c","c","u","p","."," ","C","a","n"," ","y","o","u"," ","s","a","y"," ","t","h","a","t"," ","a","g","a","i","n","?">>
OUT_OF_TIME_TEXT == <<"S","o","r","r","y",","," ","I"," ","r","a","n"," ","o","u","t"," ","o","f"," ","t","i","m","e"," ","o","n"," ","t","h","a","t"," ","o","n","e","."," ","W","h","a","t"," ","w","e","r","e"," ","y","o","u"," ","a","s","k","i","n","g","?">>
NOT_SURE_TEXT == <<"H","m","m",","," ","I","'","m"," ","n","o","t"," ","s","u","r","e"," ","w","h","a","t"," ","t","o"," ","s","a","y","."," ","C","a","n"," ","y","o","u"," ","t","r","y"," ","a","g","a","i","n","?">>
TOO_LONG_TEXT == <<"S","o","r","r","y",","," ","I"," ","t","o","o","k"," ","t","o","o"," ","l","o","n","g","."," ","C","a","n"," ","y","o","u"," ","t","r","y"," ","a","g","a","i","n","?">>
WENT_WRONG_TEXT == <<"S","o","r","r","y",","," ","s","o","m","e","t","h","i","n","g"," ","w","e","n","t"," ","w","r","o","n","g",".">>
INTERRUPTED_TEXT == <<"R","e","s","p","o","n","s","e"," ","w","a","s"," ","i","n","t","e","r","r","u","p","t","e","d",".">>
DEFAULT_GREETING == <<"H","e","y","!"," ","W","h","a","t","'","s"," ","u","p","?">>
RETELL_PREFIX == <<"r","e","t","e","l","l",":">>
FAREWELLS == << <<"g","o","o","d","b","y","e">>, <<"t","a","l","k"," ","t","o"," ","y","o","u"," ","l","a","t","e","r">>, <<"b","y","e"," ","f","o","r"," ","n","o","w">>, <<"h","a","v","e"," ","a"," ","g","o","o","d">> >>

\* ------------------------------------------------------------------------
\* String primitives of the JavaScript runtime, on character sequences
\* ------------------------------------------------------------------------
DIGITS == {"0","1","2","3","4","5","6","7","8","9"}
UPPER == <<"A","B","C","D","E","F","G","H","I","J","K","L","M","N","O","P","Q","R","S","T","U","V","W","X","Y","Z">>
LOWER == <<"a","b","c","d","e","f","g","h","i","j","k","l","m","n","o","p","q","r","s","t","u","v","w","x","y","z">>
\* the WhiteSpace and LineTerminator code points up to U+007F: space, tab,
\* line feed, carriage return, form feed and vertical tab (U+000B, written
\* as the character itself).  String.prototype.trim also removes U+00A0,
\* U+FEFF, U+2028, U+2029 and the Unicode space separators.
WHITESPACE == {" ", "\t", "\n", "\r", "\f", ""}

\* String.prototype.startsWith
startsWith(s, p) ==
    Len(s) >= Len(p) /\ SubSeq(s, 1, Len(p)) = p

\* String.prototype.includes, of the string `str` the receiver evaluates to
includes(s, p) ==
    \E str \in {s} :
        \E i \in 0..(Len(str) - Len(p)) : SubSeq(str, i + 1, i + Len(p)) = p

\* the lower-case letter of every upper-case letter
LOWER_OF ==
    [c \in {UPPER[i] : i \in 1..Len(UPPER)} |->
        LOWER[CHOOSE i \in 1..Len(UPPER) : UPPER[i] = c]]

lowerChar(c) ==
    IF c \in DOMAIN LOWER_OF THEN LOWER_OF[c] ELSE c

\* String.prototype.toLowerCase
toLowerCase(s) ==
    [i \in 1..Len(s) |-> lowerChar(s[i])]

\* String.prototype.trim
trim(s) ==
    LET keep == {i \in 1..Len(s) : s[i] \notin WHITESPACE}
    IN  IF keep = {} THEN <<>>
        ELSE SubSeq(s, CHOOSE i \in keep : \A j \in keep : i <= j,
                       CHOOSE i \in keep : \A j \in keep : i >= j)

\* Array.prototype.slice(-n)
sliceLast(a, n) ==
    IF Len(a) <= n THEN a ELSE SubSeq(a, Len(a) - n + 1, Len(a))

\* `x || ""` for an optional string field f of the object o
orEmpty(o, f) ==
    IF f \in DOMAIN o THEN o[f] ELSE <<>>

\* ------------------------------------------------------------------------
\* Caller authorization (config.ts)
\* ------------------------------------------------------------------------
keepDigitOrPlus(c) ==
    c \in DIGITS \/ c = "+"

\* phone.replace(/[^\d+]/g, "")
stripPhone(phone) ==
    SelectSeq(phone, keepDigitOrPlus)

\* variant: a ten-character number gets the country code without the "+"
normalizePhoneBareCountryCode(phone) ==
    LET normalized == stripPhone(phone)
    IN  IF ~startsWith(normalized, <<"+">>) /\ Len(normalized) >= 10
        THEN IF Len(normalized) = 10
             THEN <<"1">> \o normalized
             ELSE IF Len(normalized) = 11 /\ startsWith(normalized, <<"1">>)
                  THEN <<"+">> \o normalized
                  ELSE normalized
        ELSE normalized

normalizePhone(phone) ==
    LET normalized == stripPhone(phone)
    IN  IF ~startsWith(normalized, <<"+">>) /\ Len(normalized) >= 10
        THEN IF Len(normalized) = 10
             THEN <<"+", "1">> \o normalized
             ELSE IF Len(normalized) = 11 /\ startsWith(normalized, <<"1">>)
                  THEN <<"+">> \o normalized
                  ELSE normalized
        ELSE normalized

\* variant: an entry admits every phone whose normal form is part of its own
isAllowedCallerByPart(phone, allowList) ==
    IF Len(allowList) = 0 THEN TRUE
    ELSE LET normalized == normalizePhone(phone)
         IN  \E i \in 1..Len(allowList) : includes(normalizePhone(allowList[i]), normalized)

isAllowedCaller(phone, allowList) ==
    IF Len(allowList) = 0 THEN TRUE
    ELSE LET normalized == normalizePhone(phone)
         IN  \E i \in 1..Len(allowList) : normalized = normalizePhone(allowList[i])

\* ------------------------------------------------------------------------
\* State
\* ------------------------------------------------------------------------
VARIABLES
    variant,          \* which server file is deployed: "gateway" (index.ts) or "store" (part_001)
    allowFrom,        \* ctx.config.allowFrom
    serverRunning,    \* module-level flag of the plugin entry point
    ctx,              \* TRUE iff the module-level server context is not null
    start,            \* position of the start routine; thrown: its last run threw
    session,          \* session[c]: the CallSession object of connection c
    wsOpen,           \* wsOpen[c]: the telephony socket of connection c is OPEN
    wsClosed,         \* wsClosed[c]: that socket has emitted 'close' (it is CLOSED)
    activeCalls,      \* ctx.activeCalls: callId -> connection whose session is registered
    out,              \* out[c]: frames the latest step sent on connection c, in order
    frames,           \* telephony frames handled so far
    rejected,         \* rejected[c]: a call_details event of connection c was denied
    turn,             \* turn[t]: one content turn (an async handleMessage invocation)
    connected,        \* GatewayClient.connected
    ws,               \* GatewayClient.ws: index of the current socket, 0 for null
    sock,             \* sockets the gateway client has opened
    pendingRequests,  \* GatewayClient.pendingRequests: request id -> awaiting turn
    pendingChats,     \* GatewayClient.pendingChats: run id -> [turn, chunks]
    wire,             \* chat.send requests the gateway has received: id -> its state there
    sessionStore,     \* store variant: the persisted sessionKey -> sessionId map
    authz             \* a caller-authorization evaluation: its phone argument, the
                      \* successive normalizePhone results, the isAllowedCaller result

vars == <<variant, allowFrom, authz, serverRunning, ctx, start, session, wsOpen, wsClosed,
          activeCalls,
          out, frames, rejected, turn, connected, ws, sock, pendingRequests,
          pendingChats, wire, sessionStore>>

serverVars == <<serverRunning, ctx, start>>
callVars == <<session, wsOpen, wsClosed, activeCalls, frames, rejected>>
gatewayVars == <<connected, ws, sock, pendingRequests, pendingChats, wire>>

\* ------------------------------------------------------------------------
\* Inputs
\* ------------------------------------------------------------------------
EmptyObj == [x \in {} |-> TRUE]

P_ALLOWED == <<"+","1","5","5","5","1","2","3","4","5","6","7">>
P_ALLOWED_LOCAL == <<"5","5","5","1","2","3","4","5","6","7">>
P_OTHER == <<"+","1","5","5","5","9","9","9","9","9","9","9">>

\* no caller-authorization evaluation is being followed
NoAuthz == [phone |-> <<>>, normalized |-> <<>>, allowed |-> <<>>]

\* allowFrom as configured: open, or one E.164 entry
AllowLists == {<<>>, <<P_ALLOWED>>}

\* Arguments of the caller-authorization functions: the first nine digits of
\* the allowed number, plain or punctuated, or nothing, between up to
\* MaxAffix leading and trailing characters ("-" stands for any character
\* that is neither a digit nor "+")
PhoneInputs ==
    LET stringsUpTo(chars) == UNION {[1..k -> chars] : k \in 0..MaxAffix}
    IN  {pre \o mid \o post :
            pre \in stringsUpTo({"+", "1", "-"}),
            mid \in {<<>>, SubSeq(P_ALLOWED_LOCAL, 1, 9),
                     <<"5","5","5","-","1","2","3","-","4","5","6">>},
            post \in stringsUpTo({"7", "+", "-"})}

\* allowlists the functions are evaluated against: empty, one entry in
\* E.164 or in local form, two entries of which one is punctuated
PhoneAllowLists ==
    {<<>>, <<P_ALLOWED>>, <<P_ALLOWED_LOCAL>>,
     <<P_OTHER, <<"1","-","5","5","5","-","1","2","3","-","4","5","6","7">> >>}

\* last path segment of the connection url; empty when the url ends in "/"
CALL_A1 == <<"a","1">>
CALL_B1 == <<"b","1">>
CallSegments == {CALL_A1, CALL_B1, <<>>}
\* crypto.randomUUID()
Uuids == {<<"3","b","2","4","1","1","0","1","-","e","2","b","b","-","4","2","5","5","-","8","c","a","f","-","4","1","3","6","c","5","6","6","a","9","6","2">>}

inbound(call) == ("direction" :> "inbound") @@ call
outbound(call) == ("direction" :> "outbound") @@ call
from(p) == "from_number" :> p
to(p) == "to_number" :> p

\* the `call` objects of call_details events: the allow-listed number or
\* another one as the far party of an inbound call (direction given or
\* left out) and of an outbound call, and a call without numbers
Calls ==
    { from(P_ALLOWED_LOCAL) @@ to(P_OTHER),
      inbound(from(P_OTHER) @@ to(P_ALLOWED)),
      outbound(from(P_OTHER) @@ to(P_ALLOWED)),
      outbound(from(P_ALLOWED) @@ to(P_OTHER)) }

CallDetailsEvents ==
    {[interaction_type |-> "call_details", call |-> c] : c \in Calls}
        \cup {[interaction_type |-> "call_details"]}

PingPongEvents ==
    {[interaction_type |-> "ping_pong", timestamp |-> ts] : ts \in {1, 2}}

utterance(role, i) ==
    [role |-> role, content |-> <<LOWER[i]>>]

\* n utterances, agent and user alternating, the last one by `lastRole`
dialogue(n, lastRole) ==
    [i \in 1..n |->
        utterance(IF (n - i) % 2 = 0 THEN lastRole
                  ELSE IF lastRole = "user" THEN "agent" ELSE "user", i)]

\* turn events with a last user message: a short transcript and one longer
\* than the window
ContentEvents ==
    { [interaction_type |-> "response_required", response_id |-> 1,
       transcript |-> dialogue(2, "agent")],
      [interaction_type |-> "reminder_required", response_id |-> 2,
       transcript |-> dialogue(TRANSCRIPT_WINDOW + 2, "user")] }

\* turn events without one: no transcript, an empty one, one of agent
\* entries only, or a last user message that is empty
PromptEvents ==
    { [interaction_type |-> "response_required", response_id |-> 2],
      [interaction_type |-> "response_required", response_id |-> 1, transcript |-> <<>>],
      [interaction_type |-> "reminder_required", response_id |-> 2,
       transcript |-> <<utterance("agent", 1), utterance("agent", 2)>>],
      [interaction_type |-> "reminder_required", response_id |-> 1,
       transcript |-> <<utterance("user", 1), [role |-> "user", content |-> <<>>]>>] }

TurnEvents ==
    ContentEvents \cup PromptEvents

\* events of no handled kind: another interaction_type, or none
OtherEvents ==
    { [interaction_type |-> "update_only", transcript |-> dialogue(1, "user")],
      [transcript |-> dialogue(1, "user")] }

\* a frame JSON.parse throws on
Malformed == [malformed |-> TRUE]

InboundFrames ==
    CallDetailsEvents \cup PingPongEvents \cup TurnEvents \cup OtherEvents \cup {Malformed}

\* ------------------------------------------------------------------------
\* Outbound frames
\* ------------------------------------------------------------------------
\* a handshake that does not ask for call details
ConfigFrameNoCallDetails ==
    [response_type |-> "config",
     config |-> [auto_reconnect |-> TRUE, call_details |-> FALSE]]

ConfigFrame ==
    [response_type |-> "config",
     config |-> [auto_reconnect |-> TRUE, call_details |-> TRUE]]

ResponseFrame(response_id, content, end_call) ==
    [response_type |-> "response", response_id |-> response_id, content |-> content,
     content_complete |-> TRUE, end_call |-> end_call]

\* a pong that carries no timestamp of the ping
PingPongFrameBare(event) ==
    [response_type |-> "ping_pong"]

PingPongFrame(event) ==
    [response_type |-> "ping_pong"] @@
        (IF "timestamp" \in DOMAIN event THEN "timestamp" :> event.timestamp ELSE EmptyObj)

\* a rejection that leaves the call up
RejectFrameKeepsCall ==
    ResponseFrame(0, REJECT_TEXT, FALSE)

\* the frame a denied caller is answered with
RejectFrame ==
    ResponseFrame(0, REJECT_TEXT, TRUE)

\* the frame an unauthorized turn event is answered with
HoldingFrame(event) ==
    ResponseFrame(event.response_id, HOLDING_TEXT, FALSE)

\* the frame a turn event without a user message is answered with
PromptFrame(event) ==
    ResponseFrame(event.response_id, PROMPT_TEXT, FALSE)

\* ws.send(frame) on the telephony socket of connection c: a frame sent on a
\* socket that is no longer OPEN is not delivered
wsSend(c, frame) ==
    [i \in DOMAIN out |-> IF i = c /\ wsOpen[c] THEN <<frame>> ELSE <<>>]

\* a step that sends nothing on any telephony socket
silent ==
    out' = [i \in DOMAIN out |-> <<>>]

\* ------------------------------------------------------------------------
\* Event loop
\* ------------------------------------------------------------------------
\* close() was called on a gateway socket that was still CONNECTING: the
\* socket emits its 'error' and 'close' on the next tick, which runs ahead
\* of every promise continuation and of every other event
Aborting ==
    \E s \in DOMAIN sock : sock[s].aborted /\ sock[s].st = "closing"

\* No next-tick callback and no promise continuation is waiting to run.  A
\* continuation runs as a microtask, before the next timer, connection or
\* burst of socket data is served.  Ahead of it run only what the gateway
\* socket makes of the rest of the burst that settled the promise (further
\* frames, an invalid frame, a close frame) and the 'close' of the server,
\* which is emitted on the next tick.
Quiescent ==
    ~Aborting /\ start.wake = "none" /\ \A t \in DOMAIN turn : turn[t].wake = "none"

\* ------------------------------------------------------------------------
\* GatewayClient (gateway-client.ts)
\* ------------------------------------------------------------------------
\* new WebSocket(url) inside connect(): readyState CONNECTING, the connect
\* timeout armed, the promise of this connect() call pending.  challenged,
\* connectReq and answered are the gateway's side of the handshake.
\* aborted: close() was called while the socket was CONNECTING, so that the
\* socket emits 'error' before its 'close'.  receiving: the socket can still
\* emit 'message' (it has neither received a close frame nor failed).
NewSocket ==
    [st |-> "connecting", timer |-> TRUE, promise |-> "pending",
     challenged |-> FALSE, connectReq |-> FALSE, answered |-> FALSE,
     aborted |-> FALSE, receiving |-> TRUE]

\* ws.close(): an OPEN socket starts the closing handshake and goes on
\* receiving, a CONNECTING one aborts its connection attempt; a socket that
\* is closing or closed stays
closeSocket(sk, s) ==
    IF sk[s].st = "open" THEN [sk EXCEPT ![s].st = "closing"]
    ELSE IF sk[s].st = "connecting"
         THEN [sk EXCEPT ![s].st = "closing", ![s].aborted = TRUE, ![s].receiving = FALSE]
         ELSE sk

ConnectPcs == {"gen_connect", "chat_connect", "req_connect"}

\* this.ws?.readyState === WebSocket.OPEN
wsIsOpen(sk) ==
    ws # 0 /\ sk[ws].st = "open"

isConnected ==
    connected /\ wsIsOpen(sock)

\* resolve/reject of the promise connect() returned for socket s: the first
\* settlement wakes whoever awaits it, later ones are ignored
settleTurns(s, how) ==
    [t \in DOMAIN turn |->
        IF sock[s].promise = "pending" /\ turn[t].pc \in ConnectPcs
           /\ turn[t].sock = s /\ turn[t].wake = "none"
        THEN [turn[t] EXCEPT !.wake = how]
        ELSE turn[t]]

settleStart(s, how) ==
    IF sock[s].promise = "pending" /\ start.pc = "connecting"
       /\ start.sock = s /\ start.wake = "none"
    THEN [start EXCEPT !.wake = how]
    ELSE start

settleSocket(sk, s, how) ==
    [sk EXCEPT ![s].timer = FALSE,
               ![s].promise = IF @ = "pending" THEN how ELSE @]

\* sendHandshake(): the connect request goes out through send(), that is on
\* this.ws if it is OPEN, whichever socket the challenge came in on
sendHandshake(sk) ==
    IF wsIsOpen(sk) THEN [sk EXCEPT ![ws].connectReq = TRUE] ELSE sk

\* Array.prototype.join("")
RECURSIVE join(_)
join(chunks) ==
    IF Len(chunks) = 0 THEN <<>> ELSE Head(chunks) \o join(Tail(chunks))

\* a resolution that carries neither flag nor fallback text
chatOutcomeUnflagged(chat, phase) ==
    [text |-> trim(join(chat.chunks))]

\* the ChatResponse a lifecycle event resolves the pending chat with
chatOutcome(chat, phase) ==
    LET text == trim(join(chat.chunks))
    IN  IF phase = "error"
        THEN [text |-> IF text = <<>> THEN WENT_WRONG_TEXT ELSE text, error |-> TRUE]
        ELSE IF phase = "aborted"
             THEN [text |-> IF text = <<>> THEN INTERRUPTED_TEXT ELSE text, aborted |-> TRUE]
             ELSE [text |-> text]

without(f, k) ==
    [x \in DOMAIN f \ {k} |-> f[x]]

\* a collector that appends every snapshot to the ones it holds
assistantChunksAppended(entry, payload) ==
    IF payload.stream = "assistant" /\ "text" \in DOMAIN payload.data
       /\ payload.data.text # <<>>
    THEN Append(entry.chunks, payload.data.text)
    ELSE entry.chunks

\* `if (payload.stream === "assistant" && payload.data?.text) chat.chunks =
\* [payload.data.text]`: the chunks of a pending chat after an agent event
assistantChunks(entry, payload) ==
    IF payload.stream = "assistant" /\ "text" \in DOMAIN payload.data
       /\ payload.data.text # <<>>
    THEN <<payload.data.text>>
    ELSE entry.chunks

\* a lookup that takes the oldest pending chat, whatever run the event names
chatKeyOldest(payload) ==
    IF DOMAIN pendingChats = {} THEN payload.runId
    ELSE CHOOSE k \in DOMAIN pendingChats : \A j \in DOMAIN pendingChats : k <= j

\* `const runId = payload.runId`: the key an agent event is looked up by in
\* pendingChats
chatKey(payload) ==
    payload.runId

\* handleMessage(data, connectTimeout, connectResolve, connectReject) for a
\* frame msg that arrived on socket s; sk is the socket table the frame
\* arrived in
GatewayClient_handleMessage(s, msg, sk) ==
    IF msg.type = "event" /\ msg.event = "connect.challenge"
    THEN /\ sock' = sendHandshake(sk)
         /\ UNCHANGED <<connected, pendingRequests, pendingChats, turn, start>>
    ELSE IF msg.type = "res" /\ "payload" \in DOMAIN msg
            /\ "type" \in DOMAIN msg.payload /\ msg.payload.type = "hello-ok"
    THEN /\ sock' = settleSocket(sk, s, "resolved")
         /\ connected' = TRUE
         /\ turn' = settleTurns(s, "ok")
         /\ start' = settleStart(s, "ok")
         /\ UNCHANGED <<pendingRequests, pendingChats>>
    ELSE IF msg.type = "res" /\ ~msg.ok
    THEN \* connectReject is passed on every frame of the socket
         /\ sock' = settleSocket(sk, s, "rejected")
         /\ turn' = settleTurns(s, "err")
         /\ start' = settleStart(s, "err")
         /\ UNCHANGED <<connected, pendingRequests, pendingChats>>
    ELSE IF msg.type = "res" /\ "id" \in DOMAIN msg
    THEN /\ IF msg.id \in DOMAIN pendingRequests
            THEN /\ pendingRequests' = without(pendingRequests, msg.id)
                 /\ turn' = [turn EXCEPT
                        ![pendingRequests[msg.id]] =
                            IF msg.ok
                            THEN [@ EXCEPT !.wake = "ok", !.response = msg.payload]
                            ELSE [@ EXCEPT !.wake = "err"]]
            ELSE UNCHANGED <<pendingRequests, turn>>
         /\ sock' = sk
         /\ UNCHANGED <<connected, pendingChats, start>>
    ELSE IF msg.type = "event" /\ msg.event = "agent"
    THEN LET payload == msg.payload
             known == "runId" \in DOMAIN payload /\ chatKey(payload) \in DOMAIN pendingChats
             chat == pendingChats[chatKey(payload)]
             chunks == assistantChunks(chat, payload)
             ends == payload.stream = "lifecycle" /\ "phase" \in DOMAIN payload.data
                     /\ payload.data.phase \in {"end", "done", "error", "aborted"}
         IN  /\ IF ~known
                THEN UNCHANGED <<pendingChats, turn>>
                ELSE IF ends
                THEN /\ pendingChats' = without(pendingChats, chatKey(payload))
                     /\ turn' = [turn EXCEPT ![chat.turn] =
                            [@ EXCEPT !.wake = "ok",
                                      !.result = chatOutcome([chat EXCEPT !.chunks = chunks],
                                                             payload.data.phase)]]
                ELSE /\ pendingChats' = [pendingChats EXCEPT ![chatKey(payload)].chunks = chunks]
                     /\ UNCHANGED turn
             /\ sock' = sk
             /\ UNCHANGED <<connected, pendingRequests, start>>
    ELSE /\ sock' = sk
         /\ UNCHANGED <<connected, pendingRequests, pendingChats, turn, start>>

\* connect(), called with the client not connected: a new socket replaces
\* this.ws and the caller awaits the promise of this call
connect(tn, t, pc) ==
    /\ sock' = Append(sock, NewSocket)
    /\ ws' = Len(sock) + 1
    /\ turn' = [tn EXCEPT ![t].pc = pc, ![t].sock = Len(sock) + 1, ![t].wake = "none"]
    /\ UNCHANGED <<pendingRequests, wire>>

\* request("chat.send", params): registers the pending request, arms its
\* timer and hands the frame to send(), which transmits it only on an OPEN
\* this.ws
requestSend(tn, t) ==
    /\ pendingRequests' = (t :> t) @@ pendingRequests
    /\ wire' = IF wsIsOpen(sock)
               THEN (t :> [sock |-> ws, sessionKey |-> tn[t].key,
                           userMessage |-> tn[t].msg, acked |-> FALSE, snaps |-> 0,
                           ended |-> FALSE]) @@ wire
               ELSE wire
    /\ turn' = [tn EXCEPT ![t].pc = "await_ack", ![t].sock = 0, ![t].wake = "none"]
    /\ UNCHANGED <<sock, ws>>

\* request(method, params) up to its first await
request(tn, t) ==
    IF ~connected
    THEN connect(tn, t, "req_connect")
    ELSE requestSend(tn, t)

\* chat(opts) up to the await of request()
chat(tn, t) ==
    IF ~connected
    THEN connect(tn, t, "chat_connect")
    ELSE request(tn, t)

\* chat(opts) after request() resolved with `response`: no run id throws,
\* else the run is entered in pendingChats with its timer armed
chatAwaitRun(t) ==
    /\ pendingChats' = (turn[t].response.runId :> [turn |-> t, chunks |-> <<>>]) @@ pendingChats
    /\ turn' = [turn EXCEPT ![t].pc = "await_run", ![t].wake = "none",
                            ![t].runId = turn[t].response.runId]

\* ------------------------------------------------------------------------
\* Call sessions (index.ts)
\* ------------------------------------------------------------------------
\* config.greeting
greeting == DEFAULT_GREETING

\* the frame an approved caller is answered with
GreetingFrame ==
    ResponseFrame(0, greeting, FALSE)

\* the field of `call` the caller is identified by
checkedField(call) ==
    IF "direction" \in DOMAIN call /\ call.direction = "outbound"
    THEN "to_number"
    ELSE "from_number"

\* session.fromNumber = phoneForSession, which may be undefined
setFromNumber(s, call, f) ==
    IF f \in DOMAIN call THEN ("fromNumber" :> call[f]) @@ s ELSE without(s, "fromNumber")

\* `phoneForSession || session.callId`
phoneOrCallId(s, call, f) ==
    IF orEmpty(call, f) # <<>> THEN call[f] ELSE s.callId

\* an approval that keys the session by the number as it was sent
approveSessionRawKey(s, call) ==
    LET f == checkedField(call)
        named == setFromNumber(s, call, f)
    IN  [named EXCEPT !.sessionKey = RETELL_PREFIX \o phoneOrCallId(s, call, f),
                      !.authorized = TRUE]

\* an approval that leaves the session keyed by its call id
approveSessionKeepsKey(s, call) ==
    [setFromNumber(s, call, checkedField(call)) EXCEPT !.authorized = TRUE]

\* a denial that revokes an earlier approval
denySessionRevokes(s) ==
    [s EXCEPT !.authorized = FALSE]

\* the session after a denied call_details event: the handler returns
\* before it writes to it
denySession(s) ==
    s

\* the session after an approved call_details event
approveSession(s, call) ==
    LET f == checkedField(call)
        named == setFromNumber(s, call, f)
    IN  [named EXCEPT !.sessionKey = RETELL_PREFIX \o normalizePhone(phoneOrCallId(s, call, f)),
                      !.authorized = TRUE]

\* interactionType === "call_details"
handleCallDetails(c, event) ==
    LET call == IF "call" \in DOMAIN event THEN event.call ELSE EmptyObj
        f == checkedField(call)
    IN  IF ~isAllowedCaller(orEmpty(call, f), allowFrom)
        THEN /\ out' = wsSend(c, RejectFrame)
             /\ session' = [session EXCEPT ![c] = denySession(@)]
             /\ rejected' = [rejected EXCEPT ![c] = TRUE]
        ELSE /\ session' = [session EXCEPT ![c] = approveSession(@, call)]
             /\ out' = wsSend(c, GreetingFrame)
             /\ UNCHANGED rejected

\* part_001, interactionType === "call_details": session.fromNumber is
\* assigned from call.from_number before the caller is checked
storeCallDetails(c, event) ==
    LET call == IF "call" \in DOMAIN event THEN event.call ELSE EmptyObj
        named == setFromNumber(session[c], call, "from_number")
    IN  IF ~isAllowedCaller(orEmpty(named, "fromNumber"), allowFrom)
        THEN /\ out' = wsSend(c, RejectFrame)
             /\ session' = [session EXCEPT ![c] = named]
             /\ rejected' = [rejected EXCEPT ![c] = TRUE]
        ELSE /\ session' = [session EXCEPT ![c] =
                    [named EXCEPT !.sessionKey =
                                      RETELL_PREFIX \o normalizePhone(
                                          IF orEmpty(named, "fromNumber") # <<>>
                                          THEN named.fromNumber ELSE named.callId),
                                  !.authorized = TRUE]]
             /\ out' = wsSend(c, GreetingFrame)
             /\ UNCHANGED rejected

\* interactionType === "ping_pong"
handlePingPong(c, event) ==
    out' = wsSend(c, PingPongFrame(event))

\* a filter that keeps the entries of every speaker
isAnyone(t) ==
    "role" \in DOMAIN t

\* (t) => t.role === "user"
isUser(t) ==
    "role" \in DOMAIN t /\ t.role = "user"

\* the entry of the session transcript made from an entry of the event's
tagEntry(t) ==
    [role |-> IF "role" \in DOMAIN t /\ t.role = "agent" THEN "agent" ELSE "user",
     content |-> orEmpty(t, "content")]

\* a window one entry too wide
transcriptWindowWide(transcript) ==
    LET tail == sliceLast(transcript, TRANSCRIPT_WINDOW + 1)
    IN  [i \in 1..Len(tail) |-> tagEntry(tail[i])]

\* transcript.slice(-10).map(...)
transcriptWindow(transcript) ==
    LET tail == sliceLast(transcript, TRANSCRIPT_WINDOW)
    IN  [i \in 1..Len(tail) |-> tagEntry(tail[i])]

\* a gate that holds no turn
holdsTurnNever(s) ==
    FALSE

\* a gate that looks at the flag alone
holdsTurnUnlessAuthorized(s) ==
    ~s.authorized

\* the authorization gate of a turn-producing event
holdsTurn(s) ==
    ~s.authorized /\ Len(allowFrom) > 0

\* a hangup check that compares the reply as written, without lower-casing
shouldEndCallCaseSensitive(response) ==
    \E i \in 1..Len(FAREWELLS) : includes(response, FAREWELLS[i])

shouldEndCall(response) ==
    \E i \in 1..Len(FAREWELLS) : includes(toLowerCase(response), FAREWELLS[i])

\* generateAgentResponse after chat() resolved with `result`
responseText(result) ==
    IF result.text = <<>>
    THEN IF "aborted" \in DOMAIN result /\ result.aborted
         THEN OUT_OF_TIME_TEXT
         ELSE NOT_SURE_TEXT
    ELSE result.text

\* generateAgentResponse(session, userMessage) up to its first await; tn
\* holds the new turn t of connection c, s is its session
\* ctx.gateway.chat({sessionKey: session.sessionKey, message: userMessage, ...}):
\* the session key is read when the call is made
callChat(tn, t, s) ==
    chat([tn EXCEPT ![t].key = s.sessionKey,
                    ![t].from = orEmpty(s, "fromNumber"),
                    ![t].auth = s.authorized], t)

generateAgentResponse(tn, t, s) ==
    IF ~isConnected
    THEN connect(tn, t, "gen_connect")
    ELSE callChat(tn, t, s)

\* part_001, generateAgentResponse(session, userMessage) up to its first
\* await, deps.ensureAgentWorkspace()
storeGenerateAgentResponse(tn, t) ==
    /\ turn' = [tn EXCEPT ![t].pc = "ensure"]
    /\ UNCHANGED <<ws, sock, pendingRequests, wire>>

NewStoreTurn(c, event, userMessage) ==
    [conn |-> c, rid |-> event.response_id, msg |-> userMessage, pc |-> "new",
     wake |-> "none", key |-> <<>>, sessionId |-> "", store |-> EmptyObj,
     result |-> EmptyObj]

NewTurn(c, event, userMessage) ==
    [conn |-> c, rid |-> event.response_id, msg |-> userMessage, pc |-> "new",
     wake |-> "none", sock |-> 0, key |-> <<>>, from |-> <<>>, auth |-> FALSE,
     runId |-> 0, response |-> EmptyObj, result |-> EmptyObj]

\* interactionType === "response_required" || "reminder_required"
handleTurnEvent(c, event) ==
    IF holdsTurn(session[c])
    THEN /\ out' = wsSend(c, HoldingFrame(event))
         /\ UNCHANGED <<session, turn, gatewayVars>>
    ELSE LET transcript == orEmpty(event, "transcript")
             userMessages == SelectSeq(transcript, isUser)
             lastUserMessage == userMessages[Len(userMessages)]
         IN  IF Len(userMessages) = 0 \/ orEmpty(lastUserMessage, "content") = <<>>
             THEN /\ out' = wsSend(c, PromptFrame(event))
                  /\ UNCHANGED <<session, turn, gatewayVars>>
             ELSE /\ session' = [session EXCEPT ![c].transcript = transcriptWindow(transcript)]
                  /\ IF variant = "store"
                     THEN storeGenerateAgentResponse(
                            Append(turn, NewStoreTurn(c, event, lastUserMessage.content)),
                            Len(turn) + 1)
                     ELSE generateAgentResponse(
                            Append(turn, NewTurn(c, event, lastUserMessage.content)),
                            Len(turn) + 1, session'[c])
                  /\ silent
                  /\ UNCHANGED <<connected, pendingChats>>

\* a handler that answers a frame it cannot use with the apology
dropFrameWithApology(c, data) ==
    /\ out' = wsSend(c, ResponseFrame(0, HICCUP_TEXT, FALSE))
    /\ UNCHANGED <<session, rejected, turn, gatewayVars>>

\* a frame JSON.parse throws on (the catch block logs it), or an event whose
\* interaction_type matches none of the branches: nothing is done
dropFrame(c, data) ==
    /\ silent
    /\ UNCHANGED <<session, rejected, turn, gatewayVars>>

\* handleMessage(ws, session, data) up to its first await
handleMessage(c, data) ==
    /\ ctx
    /\ IF "malformed" \in DOMAIN data \/ "interaction_type" \notin DOMAIN data
       THEN dropFrame(c, data)
       ELSE IF data.interaction_type = "call_details"
       THEN /\ IF variant = "store" THEN storeCallDetails(c, data) ELSE handleCallDetails(c, data)
            /\ UNCHANGED <<turn, gatewayVars>>
       ELSE IF data.interaction_type = "ping_pong"
       THEN /\ handlePingPong(c, data)
            /\ UNCHANGED <<session, rejected, turn, gatewayVars>>
       ELSE IF data.interaction_type \in {"response_required", "reminder_required"}
       THEN /\ handleTurnEvent(c, data)
            /\ UNCHANGED rejected
       ELSE dropFrame(c, data)

\* the call id of a connection to `segment`, the last path segment of its url
callIdOf(segment, uuid) ==
    IF segment # <<>> THEN segment ELSE uuid

NewSession(callId) ==
    [callId |-> callId, authorized |-> FALSE, transcript |-> <<>>,
     sessionKey |-> RETELL_PREFIX \o callId]

\* a handler that ends turn t without sending its response frame
finishTurnSilently(t, content, end_call) ==
    /\ silent
    /\ turn' = [turn EXCEPT ![t] = [conn |-> @.conn, pc |-> "done", wake |-> "none"]]

\* the response frame that ends turn t; with the server context gone the
\* handler throws on ctx.logger before it sends anything
finishTurn(t, content, end_call) ==
    /\ IF ctx
       THEN out' = wsSend(turn[t].conn, ResponseFrame(turn[t].rid, content, end_call))
       ELSE silent
    /\ turn' = [turn EXCEPT ![t] = [conn |-> @.conn, pc |-> "done", wake |-> "none"]]

\* a catch block that hangs up on the caller
apologizeAndHangUp(t) ==
    finishTurn(t, HICCUP_TEXT, TRUE)

\* the catch block of handleMessage
apologize(t) ==
    finishTurn(t, HICCUP_TEXT, FALSE)

\* part_001: `const texts = (result.payloads ?? []).filter(p => p.text &&
\* !p.isError).map(p => p.text?.trim()).filter(Boolean); texts.join(" ")`
RECURSIVE joinTexts(_)
joinTexts(payloads) ==
    IF Len(payloads) = 0 THEN <<>>
    ELSE LET p == Head(payloads)
             text == IF orEmpty(p, "text") # <<>> /\ ~("isError" \in DOMAIN p /\ p.isError)
                     THEN trim(p.text) ELSE <<>>
             rest == joinTexts(Tail(payloads))
         IN  IF text = <<>> THEN rest
             ELSE IF rest = <<>> THEN text
             ELSE text \o <<" ">> \o rest

\* part_001, generateAgentResponse after runEmbeddedPiAgent resolved
storeResponseText(result) ==
    LET text == joinTexts(IF "payloads" \in DOMAIN result THEN result.payloads ELSE <<>>)
    IN  IF text = <<>>
        THEN IF "meta" \in DOMAIN result /\ "aborted" \in DOMAIN result.meta
                /\ result.meta.aborted
             THEN OUT_OF_TIME_TEXT
             ELSE NOT_SURE_TEXT
        ELSE text

\* part_001, the call of deps.runEmbeddedPiAgent: session.sessionKey is read
\* when the call is made
storeRunAgent(t, sessionId) ==
    turn' = [turn EXCEPT ![t].pc = "run", ![t].wake = "none",
                         ![t].key = session[turn[t].conn].sessionKey,
                         ![t].sessionId = sessionId]

\* part_001, the continuation of turn t after the promise it awaits settled
storeResumeTurn(t) ==
    LET tu == turn[t]
        s == session[tu.conn]
    IN  IF tu.wake = "err"
        THEN apologize(t)
        ELSE IF tu.pc = "ensure"
        THEN \* loadSessionStore, then the entry of session.sessionKey or a new one
             /\ IF s.sessionKey \in DOMAIN sessionStore
                THEN storeRunAgent(t, sessionStore[s.sessionKey])
                ELSE turn' = [turn EXCEPT ![t].pc = "save", ![t].wake = "none",
                                          ![t].sessionId = s.sessionId,
                                          ![t].store = (s.sessionKey :> s.sessionId) @@ sessionStore]
             /\ silent
        ELSE IF tu.pc = "save"
        THEN /\ storeRunAgent(t, tu.sessionId)
             /\ silent
        ELSE finishTurn(t, storeResponseText(tu.result),
                        shouldEndCall(storeResponseText(tu.result)))

\* the continuation of turn t after the promise it awaits settled
resumeTurn(t) ==
    LET tu == turn[t]
    IN  IF tu.wake = "err"
        THEN /\ apologize(t)
             /\ UNCHANGED gatewayVars
        ELSE IF tu.pc = "gen_connect"
        THEN \* `ctx.gateway.chat(...)`: with the server context gone the read
             \* of ctx throws, and so does the catch block of handleMessage
             IF ctx
             THEN /\ callChat(turn, t, session[tu.conn])
                  /\ silent
                  /\ UNCHANGED <<connected, pendingChats>>
             ELSE /\ apologize(t)
                  /\ UNCHANGED gatewayVars
        ELSE IF tu.pc = "chat_connect"
        THEN /\ request(turn, t)
             /\ silent
             /\ UNCHANGED <<connected, pendingChats>>
        ELSE IF tu.pc = "req_connect"
        THEN /\ requestSend(turn, t)
             /\ silent
             /\ UNCHANGED <<connected, pendingChats>>
        ELSE IF tu.pc = "await_ack"
        THEN IF "runId" \in DOMAIN tu.response
             THEN /\ chatAwaitRun(t)
                  /\ silent
                  /\ UNCHANGED <<connected, ws, sock, pendingRequests, wire>>
             ELSE /\ apologize(t)
                  /\ UNCHANGED gatewayVars
        ELSE /\ finishTurn(t, responseText(tu.result), shouldEndCall(responseText(tu.result)))
             /\ UNCHANGED gatewayVars

\* ------------------------------------------------------------------------
\* Actions: the plugin service and the telephony side
\* ------------------------------------------------------------------------
\* register.start() -> startWebSocketServer(): a new GatewayClient, whose
\* connect() is awaited before anything else is created
StartService ==
    /\ Quiescent
    /\ ~serverRunning /\ ~ctx /\ start.pc = "idle"
    /\ connected' = FALSE
    /\ pendingRequests' = EmptyObj
    /\ pendingChats' = EmptyObj
    /\ wire' = EmptyObj
    /\ sock' = <<NewSocket>>
    /\ ws' = 1
    /\ start' = [pc |-> "connecting", sock |-> 1, wake |-> "none", thrown |-> FALSE]
    /\ silent
    /\ UNCHANGED <<variant, allowFrom, authz, serverRunning, ctx, callVars, turn, sessionStore>>

\* a start routine that builds the server context although connect() failed
StartResumesHalfUp ==
    /\ ~Aborting
    /\ start.wake # "none"
    /\ ctx' = TRUE
    /\ activeCalls' = EmptyObj
    /\ serverRunning' = (start.wake = "ok")
    /\ start' = [pc |-> "idle", sock |-> 0, wake |-> "none", thrown |-> start.wake = "err"]
    /\ silent
    /\ UNCHANGED <<variant, allowFrom, authz, session, wsOpen, wsClosed, frames, rejected, turn,
                   gatewayVars, sessionStore>>

\* startWebSocketServer after gateway.connect() settled: on success the
\* server and its context are created and start() sets serverRunning; on
\* failure the error is rethrown to the caller of start()
StartResumes ==
    /\ ~Aborting
    /\ start.wake # "none"
    /\ IF start.wake = "ok"
       THEN /\ ctx' = TRUE
            /\ activeCalls' = EmptyObj
            /\ serverRunning' = TRUE
       ELSE UNCHANGED <<ctx, activeCalls, serverRunning>>
    /\ start' = [pc |-> "idle", sock |-> 0, wake |-> "none", thrown |-> start.wake = "err"]
    /\ silent
    /\ UNCHANGED <<variant, allowFrom, authz, session, wsOpen, wsClosed, frames, rejected, turn,
                   gatewayVars, sessionStore>>

\* GatewayClient.disconnect(): closes this.ws and forgets it
disconnect(sk) ==
    IF ws # 0 THEN closeSocket(sk, ws) ELSE sk

\* register.stop() -> stopWebSocketServer() up to the callback of
\* wss.close(): the gateway client is disconnected and the server stops
\* accepting connections
StopService ==
    /\ Quiescent
    /\ serverRunning /\ ctx /\ start.pc = "idle"
    /\ sock' = disconnect(sock)
    /\ ws' = 0
    /\ connected' = FALSE
    /\ start' = [pc |-> "stopping", sock |-> 0, wake |-> "none", thrown |-> FALSE]
    /\ silent
    /\ UNCHANGED <<variant, allowFrom, authz, serverRunning, ctx, callVars, turn,
                   pendingRequests, pendingChats, wire, sessionStore>>

\* the callback of wss.close() runs, then stop() resumes: ctx = null and
\* serverRunning = false.  The server leaves the sockets of its calls alone
\* and is closed once the last of them has gone; it emits 'close' on the
\* next tick, ahead of the promise continuations that are ready and of the
\* 'close' of a socket that has ended.
WssClosed ==
    /\ ~Aborting
    /\ start.pc = "stopping"
    /\ \A c \in DOMAIN wsOpen : ~wsOpen[c]
    /\ ctx' = FALSE
    /\ serverRunning' = FALSE
    /\ start' = [pc |-> "idle", sock |-> 0, wake |-> "none", thrown |-> FALSE]
    /\ silent
    /\ UNCHANGED <<variant, allowFrom, authz, callVars, turn, gatewayVars, sessionStore>>

\* handleConnection(ws, req)
handleConnection(segment, uuid) ==
    LET callId == callIdOf(segment, uuid)
        c == Len(session) + 1
    IN  /\ ctx
        /\ session' = Append(session, NewSession(callId))
        /\ activeCalls' = (callId :> c) @@ activeCalls
        /\ out' = Append([i \in DOMAIN out |-> <<>>], <<ConfigFrame>>)
        /\ wsOpen' = Append(wsOpen, TRUE)
        /\ wsClosed' = Append(wsClosed, FALSE)
        /\ rejected' = Append(rejected, FALSE)

Connection(segment, uuid) ==
    /\ Quiescent
    /\ start.pc # "stopping"
    /\ \A c \in DOMAIN session : session[c].callId # uuid
    /\ handleConnection(segment, uuid)
    /\ UNCHANGED <<variant, allowFrom, authz, serverVars, frames, turn, gatewayVars, sessionStore>>

\* a frame arrives on the open telephony socket of connection c
Message(c, data) ==
    /\ Quiescent
    /\ wsOpen[c]
    /\ frames' = frames + 1
    /\ handleMessage(c, data)
    /\ UNCHANGED <<variant, allowFrom, authz, serverVars, wsOpen, wsClosed, activeCalls,
                   sessionStore>>

\* the telephony socket of connection c leaves OPEN for CLOSING: the caller
\* has sent a close frame or ended its side of the connection.  No handler
\* of the server runs; the socket emits 'close' in a later task.
WsClosing(c) ==
    /\ Quiescent
    /\ wsOpen[c]
    /\ wsOpen' = [wsOpen EXCEPT ![c] = FALSE]
    /\ silent
    /\ UNCHANGED <<variant, allowFrom, authz, serverVars, session, wsClosed, activeCalls, frames,
                   rejected, turn, gatewayVars, sessionStore>>

\* handleClose(session)
handleClose(c) ==
    activeCalls' = IF ctx THEN without(activeCalls, session[c].callId) ELSE activeCalls

\* ws.on("close") of connection c: the socket is CLOSED, having been CLOSING
\* for some tasks or having lost its connection at once
Close(c) ==
    /\ Quiescent
    /\ ~wsClosed[c]
    /\ wsOpen' = [wsOpen EXCEPT ![c] = FALSE]
    /\ wsClosed' = [wsClosed EXCEPT ![c] = TRUE]
    /\ handleClose(c)
    /\ silent
    /\ UNCHANGED <<variant, allowFrom, authz, serverVars, session, frames, rejected, turn,
                   gatewayVars, sessionStore>>

TurnResumes(t) ==
    /\ ~Aborting
    /\ turn[t].wake # "none"
    /\ IF variant = "store"
       THEN /\ storeResumeTurn(t)
            /\ UNCHANGED gatewayVars
       ELSE resumeTurn(t)
    /\ UNCHANGED <<variant, allowFrom, authz, serverVars, session, wsOpen, wsClosed, activeCalls, frames,
                   rejected, sessionStore>>

\* ------------------------------------------------------------------------
\* Actions: the gateway socket, the gateway behind it, and the timers
\* ------------------------------------------------------------------------
REPLY_FAREWELL == <<"O","k","a","y",","," ","h","a","v","e"," ","a"," ","g","o","o","d"," ","o","n","e","!">>
REPLY_WEATHER == <<"S","u","r","e",","," ","h","e","r","e","'","s"," ","t","h","e"," ","w","e","a","t","h","e","r",".">>
REPLY_GOODBYE == <<"G","o","o","d","b","y","e","!">>
\* snapshots of the assistant stream: the replies, one of them padded with
\* white space, and an empty text
ReplyTexts == {REPLY_FAREWELL, REPLY_WEATHER, <<" ">> \o REPLY_GOODBYE \o <<"\n">>, <<>>}
Phases == {"start", "end", "done", "error", "aborted"}

callUnchanged ==
    /\ silent
    /\ UNCHANGED <<variant, allowFrom, authz, serverRunning, ctx, callVars, sessionStore>>

\* ws.on("open"): logs only
SockOpen(s) ==
    /\ Quiescent
    /\ sock[s].st = "connecting"
    /\ sock' = [sock EXCEPT ![s].st = "open"]
    /\ callUnchanged
    /\ UNCHANGED <<start, turn, connected, ws, pendingRequests, pendingChats, wire>>

\* the gateway socket s leaves OPEN for CLOSING: the gateway has sent a close
\* frame.  No handler of the client runs and the socket emits no further
\* 'message'; its 'close' comes in a later task.  The close frame may follow
\* the frame that settled a promise in the same burst, ahead of the
\* continuation.
SockClosing(s) ==
    /\ ~Aborting
    /\ sock[s].st = "open"
    /\ sock' = [sock EXCEPT ![s].st = "closing", ![s].receiving = FALSE]
    /\ callUnchanged
    /\ UNCHANGED <<start, turn, connected, ws, pendingRequests, pendingChats, wire>>

\* ws.on("error") of socket s: clears the connect timer and rejects the
\* connect promise.  A connection attempt that fails or was aborted emits
\* 'error' and 'close' together, so that ws.on("close") runs in the same
\* step; a socket that was OPEN (the gateway sent an invalid frame) is left
\* CLOSING, emits no further 'message', and emits its 'close' in a later
\* task.  The invalid frame may follow the frame that settled a promise in
\* the same burst, ahead of the continuation.
SockError(s) ==
    /\ IF sock[s].aborted THEN sock[s].st = "closing"
       ELSE IF sock[s].st = "connecting" THEN Quiescent ELSE ~Aborting
    /\ IF sock[s].st = "connecting" \/ sock[s].aborted
       THEN /\ sock' = [settleSocket(sock, s, "rejected") EXCEPT ![s].st = "closed",
                                                                ![s].receiving = FALSE]
            /\ connected' = FALSE
       ELSE /\ sock[s].st \in {"open", "closing"} /\ sock[s].receiving
            /\ sock' = [settleSocket(sock, s, "rejected") EXCEPT ![s].st = "closing",
                                                                ![s].receiving = FALSE]
            /\ UNCHANGED connected
    /\ turn' = settleTurns(s, "err")
    /\ start' = settleStart(s, "err")
    /\ callUnchanged
    /\ UNCHANGED <<ws, pendingRequests, pendingChats, wire>>

\* ws.on("close") of socket s: the socket is CLOSED, having been CLOSING for
\* some tasks or having lost its connection at once; the close of an
\* aborted connection attempt comes with its 'error'
SockClosed(s) ==
    /\ sock[s].st \in {"open", "closing"}
    /\ IF sock[s].aborted
       THEN SockError(s)
       ELSE /\ Quiescent
            /\ sock' = [sock EXCEPT ![s].st = "closed", ![s].receiving = FALSE]
            /\ connected' = FALSE
            /\ callUnchanged
            /\ UNCHANGED <<start, turn, ws, pendingRequests, pendingChats, wire>>

\* the connect timeout of socket s fires: rejects, then this.ws?.close()
ConnectTimeout(s) ==
    /\ Quiescent
    /\ sock[s].timer
    /\ sock' = LET settled == settleSocket(sock, s, "rejected")
               IN  IF ws # 0 THEN closeSocket(settled, ws) ELSE settled
    /\ turn' = settleTurns(s, "err")
    /\ start' = settleStart(s, "err")
    /\ callUnchanged
    /\ UNCHANGED <<connected, ws, pendingRequests, pendingChats, wire>>

\* a timer callback that rejects but leaves the request in the table
discardRequestKeeps(requests, id) ==
    requests

\* this.pendingRequests.delete(id) in the timer callback of request()
discardRequest(requests, id) ==
    without(requests, id)

\* the timer of pending request id fires
RequestTimeout(id) ==
    /\ Quiescent
    /\ id \in DOMAIN pendingRequests
    /\ pendingRequests' = discardRequest(pendingRequests, id)
    /\ turn' = [turn EXCEPT ![pendingRequests[id]].wake = "err"]
    /\ callUnchanged
    /\ UNCHANGED <<start, connected, ws, sock, pendingChats, wire>>

\* a timer callback that leaves its entry in the pending table
discardChatKeeps(chats, runId) ==
    chats

\* this.pendingChats.delete(runId) in the timer callback of chat()
discardChat(chats, runId) ==
    without(chats, runId)

\* the timer chat() armed for turn t fires
ChatTimeout(t) ==
    /\ Quiescent
    /\ turn[t].pc = "await_run" /\ turn[t].wake = "none"
    /\ pendingChats' = discardChat(pendingChats, turn[t].runId)
    /\ turn' = [turn EXCEPT ![t].wake = "ok",
                            ![t].result = [text |-> TOO_LONG_TEXT, aborted |-> TRUE]]
    /\ callUnchanged
    /\ UNCHANGED <<start, connected, ws, sock, pendingRequests, wire>>

\* a frame of the gateway is dispatched to handleMessage on socket s: the
\* socket emits 'message' while it is OPEN and, after a local close(), until
\* the closing handshake has completed
deliver(s, msg, sk) ==
    /\ ~Aborting
    /\ sk[s].st \in {"open", "closing"} /\ sk[s].receiving
    /\ GatewayClient_handleMessage(s, msg, sk)
    /\ callUnchanged
    /\ UNCHANGED ws

\* the gateway greets a new socket with connect.challenge
GwChallenge(s) ==
    /\ ~sock[s].challenged
    /\ deliver(s, [type |-> "event", event |-> "connect.challenge", payload |-> EmptyObj],
               [sock EXCEPT ![s].challenged = TRUE])
    /\ UNCHANGED wire

\* the gateway answers the connect request it received on socket s
GwConnectRes(s, ok) ==
    /\ sock[s].connectReq /\ ~sock[s].answered
    /\ deliver(s, IF ok THEN [type |-> "res", id |-> 0, ok |-> TRUE, payload |-> [type |-> "hello-ok"]]
                  ELSE [type |-> "res", id |-> 0, ok |-> FALSE],
               [sock EXCEPT ![s].answered = TRUE])
    /\ UNCHANGED wire

\* the gateway answers chat.send request id: accepted with a run id,
\* accepted without one, or refused
GwChatRes(id, kind) ==
    /\ id \in DOMAIN wire /\ ~wire[id].acked
    /\ wire' = IF kind = "run" THEN [wire EXCEPT ![id].acked = TRUE] ELSE without(wire, id)
    /\ deliver(wire[id].sock,
               IF kind = "run" THEN [type |-> "res", id |-> id, ok |-> TRUE, payload |-> [runId |-> id]]
               ELSE IF kind = "norun" THEN [type |-> "res", id |-> id, ok |-> TRUE, payload |-> EmptyObj]
               ELSE [type |-> "res", id |-> id, ok |-> FALSE],
               sock)

\* the gateway streams an assistant snapshot of run id
GwAssistant(s, id, text) ==
    /\ id \in DOMAIN wire
    /\ wire' = [wire EXCEPT ![id].snaps = @ + 1]
    /\ deliver(s, [type |-> "event", event |-> "agent",
                   payload |-> [runId |-> id, stream |-> "assistant", data |-> [text |-> text]]],
               sock)

\* the gateway reports a lifecycle phase of run id
GwLifecycle(s, id, phase) ==
    /\ id \in DOMAIN wire
    /\ wire' = IF phase = "start" THEN wire ELSE without(wire, id)
    /\ deliver(s, [type |-> "event", event |-> "agent",
                   payload |-> [runId |-> id, stream |-> "lifecycle", data |-> [phase |-> phase]]],
               sock)

\* the gateway reports the final phase of run id before it has answered the
\* chat.send request that started the run; the answer is still to come
GwLifecycleBeforeAck(s, id, phase) ==
    /\ id \in DOMAIN wire /\ ~wire[id].acked /\ ~wire[id].ended
    /\ wire' = [wire EXCEPT ![id].ended = TRUE]
    /\ deliver(s, [type |-> "event", event |-> "agent",
                   payload |-> [runId |-> id, stream |-> "lifecycle", data |-> [phase |-> phase]]],
               sock)

\* ------------------------------------------------------------------------
\* Actions: the session-store server (part_001) and the core it embeds
\* ------------------------------------------------------------------------
\* crypto.randomUUID() for session.sessionId, in the order they are drawn
SessionIds == <<"uuid-1", "uuid-2", "uuid-3", "uuid-4">>

\* what runEmbeddedPiAgent resolves with: a reply, a reply after an error
\* payload, and a run that was aborted without text
AgentResults ==
    { [payloads |-> <<[text |-> REPLY_WEATHER]>>],
      [payloads |-> <<[text |-> REPLY_WEATHER, isError |-> TRUE],
                      [text |-> <<" ">> \o REPLY_FAREWELL]>>],
      [meta |-> [aborted |-> TRUE]] }

storeUnchanged ==
    /\ silent
    /\ UNCHANGED <<variant, allowFrom, authz, serverRunning, ctx, callVars, gatewayVars>>

\* part_001, startWebSocketServer up to `await loadCoreAgentDeps()`
StoreStart ==
    /\ Quiescent
    /\ ~ctx /\ start.pc = "idle"
    /\ start' = [pc |-> "loading", sock |-> 0, wake |-> "none", thrown |-> FALSE]
    /\ silent
    /\ UNCHANGED <<variant, allowFrom, authz, serverRunning, ctx, callVars, turn, gatewayVars,
                   sessionStore>>

\* loadCoreAgentDeps() settles
DepsLoaded(ok) ==
    /\ start.pc = "loading" /\ start.wake = "none"
    /\ start' = [start EXCEPT !.wake = IF ok THEN "ok" ELSE "err"]
    /\ storeUnchanged
    /\ UNCHANGED <<turn, sessionStore>>

\* part_001, startWebSocketServer after the core dependencies are loaded
StoreStartResumes ==
    /\ start.wake # "none"
    /\ IF start.wake = "ok"
       THEN /\ ctx' = TRUE
            /\ activeCalls' = EmptyObj
       ELSE UNCHANGED <<ctx, activeCalls>>
    /\ start' = [pc |-> "idle", sock |-> 0, wake |-> "none", thrown |-> start.wake = "err"]
    /\ silent
    /\ UNCHANGED <<variant, allowFrom, authz, serverRunning, session, wsOpen, wsClosed, frames, rejected,
                   turn, gatewayVars, sessionStore>>

\* part_001, stopWebSocketServer() up to the callback of wss.close(): the
\* server stops accepting connections
StoreStop ==
    /\ Quiescent
    /\ ctx /\ start.pc = "idle"
    /\ start' = [pc |-> "stopping", sock |-> 0, wake |-> "none", thrown |-> FALSE]
    /\ silent
    /\ UNCHANGED <<variant, allowFrom, authz, serverRunning, ctx, callVars, turn, gatewayVars,
                   sessionStore>>

\* part_001, the callback of wss.close() runs: ctx = null.  The server
\* leaves the sockets of its calls alone and is closed once the last of
\* them has gone; it emits 'close' on the next tick, ahead of the promise
\* continuations that are ready.
StoreWssClosed ==
    /\ start.pc = "stopping"
    /\ \A c \in DOMAIN wsOpen : ~wsOpen[c]
    /\ ctx' = FALSE
    /\ start' = [pc |-> "idle", sock |-> 0, wake |-> "none", thrown |-> FALSE]
    /\ silent
    /\ UNCHANGED <<variant, allowFrom, authz, serverRunning, callVars, turn, gatewayVars,
                   sessionStore>>

\* part_001, handleConnection(ws, req)
StoreConnection(segment, uuid, sessionId) ==
    LET callId == callIdOf(segment, uuid)
        c == Len(session) + 1
    IN  /\ Quiescent
        /\ ctx
        /\ start.pc # "stopping"
        /\ \A i \in DOMAIN session :
              session[i].callId # uuid /\ session[i].sessionId # sessionId
        /\ session' = Append(session, ("sessionId" :> sessionId) @@ NewSession(callId))
        /\ activeCalls' = (callId :> c) @@ activeCalls
        /\ out' = Append([i \in DOMAIN out |-> <<>>], <<ConfigFrame>>)
        /\ wsOpen' = Append(wsOpen, TRUE)
        /\ wsClosed' = Append(wsClosed, FALSE)
        /\ rejected' = Append(rejected, FALSE)
        /\ UNCHANGED <<variant, allowFrom, authz, serverVars, frames, turn, gatewayVars,
                       sessionStore>>

\* deps.ensureAgentWorkspace() settles for turn t
EnsureDone(t, ok) ==
    /\ Quiescent
    /\ turn[t].pc = "ensure"
    /\ turn' = [turn EXCEPT ![t].wake = IF ok THEN "ok" ELSE "err"]
    /\ storeUnchanged
    /\ UNCHANGED <<start, sessionStore>>

\* deps.saveSessionStore() of turn t completes: the store object the turn
\* loaded, with its new entry, replaces the persisted one
SaveDone(t) ==
    /\ Quiescent
    /\ turn[t].pc = "save"
    /\ sessionStore' = turn[t].store
    /\ turn' = [turn EXCEPT ![t].wake = "ok"]
    /\ storeUnchanged
    /\ UNCHANGED start

\* deps.runEmbeddedPiAgent() of turn t resolves
AgentDone(t, result) ==
    /\ Quiescent
    /\ turn[t].pc = "run"
    /\ turn' = [turn EXCEPT ![t].wake = "ok", ![t].result = result]
    /\ storeUnchanged
    /\ UNCHANGED <<start, sessionStore>>

\* deps.runEmbeddedPiAgent() of turn t rejects
AgentFails(t) ==
    /\ Quiescent
    /\ turn[t].pc = "run"
    /\ turn' = [turn EXCEPT ![t].wake = "err"]
    /\ storeUnchanged
    /\ UNCHANGED <<start, sessionStore>>

\* ------------------------------------------------------------------------
\* Evaluations of the caller-authorization functions (config.ts)
\* ------------------------------------------------------------------------
authzUnchanged ==
    UNCHANGED <<variant, allowFrom, serverVars, callVars, out, turn, gatewayVars, sessionStore>>

\* normalizePhone(phone)
NormalizeInput ==
    /\ authz.normalized = <<>>
    /\ authz' = [authz EXCEPT !.normalized = <<normalizePhone(authz.phone)>>]
    /\ authzUnchanged

\* normalizePhone applied to its own result
NormalizeResult ==
    /\ Len(authz.normalized) = 1
    /\ authz' = [authz EXCEPT !.normalized = Append(@, normalizePhone(@[1]))]
    /\ authzUnchanged

\* isAllowedCaller(phone, config.allowFrom)
CheckCaller ==
    /\ authz.allowed = <<>>
    /\ authz' = [authz EXCEPT !.allowed = <<isAllowedCaller(authz.phone, allowFrom)>>]
    /\ authzUnchanged

\* ------------------------------------------------------------------------
\* Specifications
\* ------------------------------------------------------------------------
InitServer ==
    /\ serverRunning = FALSE
    /\ ctx = FALSE
    /\ start = [pc |-> "idle", sock |-> 0, wake |-> "none", thrown |-> FALSE]
    /\ session = <<>>
    /\ wsOpen = <<>>
    /\ wsClosed = <<>>
    /\ activeCalls = EmptyObj
    /\ out = <<>>
    /\ frames = 0
    /\ rejected = <<>>
    /\ turn = <<>>
    /\ connected = FALSE
    /\ ws = 0
    /\ sock = <<>>
    /\ pendingRequests = EmptyObj
    /\ pendingChats = EmptyObj
    /\ wire = EmptyObj
    /\ sessionStore = EmptyObj

InitCommon ==
    /\ allowFrom \in AllowLists
    /\ authz = NoAuthz
    /\ InitServer

Init ==
    /\ variant = "gateway"
    /\ InitCommon

\* Call sessions of the gateway server (index.ts with gateway-client.ts):
\* every telephony frame on up to MaxConns connections, against a gateway
\* that keeps its socket up, accepts or refuses a chat request and ends a
\* run properly, with an error, or not before the chat timer fires.
Next ==
    \/ StartService
    \/ StartResumes
    \/ \E segment \in CallSegments, uuid \in Uuids :
            Len(session) < MaxConns /\ Connection(segment, uuid)
    \/ \E c \in DOMAIN session, data \in InboundFrames :
            /\ frames < MaxFrames /\ Message(c, data)
            /\ Len(turn') <= MaxTurns /\ Len(sock') <= MaxSocks
    \/ \E t \in DOMAIN turn : TurnResumes(t) /\ Len(sock') <= MaxSocks
    \/ \E s \in DOMAIN sock : SockOpen(s)
    \/ \E t \in DOMAIN turn : ChatTimeout(t)
    \/ \E s \in DOMAIN sock : GwChallenge(s)
    \/ \E s \in DOMAIN sock, ok \in BOOLEAN : GwConnectRes(s, ok)
    \/ \E id \in DOMAIN turn, kind \in {"run", "refused"} : GwChatRes(id, kind)
    \/ \E s \in DOMAIN sock, id \in DOMAIN wire :
            /\ wire[id].acked /\ wire[id].snaps < MaxSnapshots
            /\ GwAssistant(s, id, REPLY_WEATHER)
    \/ \E s \in DOMAIN sock, id \in DOMAIN wire, phase \in {"end", "error"} :
            GwLifecycle(s, id, phase)

Spec == Init /\ [][Next]_vars

\* The gateway client under one call: content turns of one connection
\* against a gateway whose socket fails, closes and times out, that answers
\* a chat request in every way and streams a run in every order.
NextGateway ==
    \/ StartService
    \/ StartResumes
    \/ \E segment \in {CALL_A1}, uuid \in Uuids :
            Len(session) < 1 /\ Connection(segment, uuid)
    \/ \E c \in DOMAIN session, data \in ContentEvents :
            /\ allowFrom = <<>>
            /\ frames < MaxFrames /\ Message(c, data)
            /\ Len(turn') <= MaxBackendTurns /\ Len(sock') <= MaxSocks
    \/ \E c \in DOMAIN session : Close(c)
    \/ \E c \in DOMAIN session : WsClosing(c)
    \/ \E t \in DOMAIN turn : TurnResumes(t) /\ Len(sock') <= MaxSocks
    \/ \E s \in DOMAIN sock : SockOpen(s)
    \/ \E s \in DOMAIN sock : SockError(s)
    \/ \E s \in DOMAIN sock : SockClosed(s)
    \/ \E s \in DOMAIN sock : SockClosing(s)
    \/ \E s \in DOMAIN sock : ConnectTimeout(s)
    \/ \E id \in DOMAIN turn : RequestTimeout(id)
    \/ \E t \in DOMAIN turn : ChatTimeout(t)
    \/ \E s \in DOMAIN sock : GwChallenge(s)
    \/ \E s \in DOMAIN sock, ok \in BOOLEAN : GwConnectRes(s, ok)
    \/ \E id \in DOMAIN turn, kind \in {"run", "norun", "refused"} : GwChatRes(id, kind)
    \/ \E s \in DOMAIN sock, id \in DOMAIN wire, text \in ReplyTexts :
            wire[id].snaps < MaxBackendSnapshots /\ GwAssistant(s, id, text)
    \/ \E s \in DOMAIN sock, id \in DOMAIN turn, phase \in Phases : GwLifecycle(s, id, phase)

SpecGateway == Init /\ [][NextGateway]_vars

\* ------------------------------------------------------------------------
\* Turns to completion
\* ------------------------------------------------------------------------
\* One call while the service is stopped or stays up: up to MaxBackendTurns
\* turns, one after or beside the other, of a caller who is admitted (empty
\* allowlist) or held (allowlist without an approving event), against a
\* gateway that may fail in every way, with the telephony socket closing
\* and the plugin's stop() running at any moment.  The gateway ends a run
\* with each of its final outcomes; the text of a run is left out.  A
\* stopped service is started again only once the turns of the old gateway
\* client are over.
NextLive ==
    \/ (\A t \in DOMAIN turn : turn[t].pc = "done") /\ StartService
    \/ StartResumes
    \/ StopService
    \/ WssClosed
    \/ \E segment \in {CALL_A1}, uuid \in Uuids :
            Len(session) < 1 /\ Connection(segment, uuid)
    \/ \E c \in DOMAIN session, data \in ContentEvents \cup PromptEvents :
            /\ frames < MaxLiveFrames /\ Message(c, data)
            /\ Len(turn') <= MaxBackendTurns /\ Len(sock') <= MaxSocks
    \/ \E c \in DOMAIN session : Close(c)
    \/ \E c \in DOMAIN session : WsClosing(c)
    \/ \E t \in DOMAIN turn : TurnResumes(t) /\ Len(sock') <= MaxSocks
    \/ \E s \in DOMAIN sock : SockOpen(s)
    \/ \E s \in DOMAIN sock : SockError(s)
    \/ \E s \in DOMAIN sock : SockClosed(s)
    \/ \E s \in DOMAIN sock : SockClosing(s)
    \/ \E s \in DOMAIN sock : ConnectTimeout(s)
    \/ \E id \in DOMAIN turn : RequestTimeout(id)
    \/ \E t \in DOMAIN turn : ChatTimeout(t)
    \/ \E s \in DOMAIN sock : GwChallenge(s)
    \/ \E s \in DOMAIN sock, ok \in BOOLEAN : GwConnectRes(s, ok)
    \/ \E id \in DOMAIN turn, kind \in {"run", "norun", "refused"} : GwChatRes(id, kind)
    \/ \E s \in DOMAIN sock, id \in DOMAIN turn, phase \in {"end", "error", "aborted"} :
            GwLifecycle(s, id, phase)

\* What the runtime guarantees: a next-tick callback and a promise
\* continuation that is ready run, and an armed timer (connect 10 s,
\* request 5 s, chat timeoutMs) fires.  Nothing is assumed of the gateway
\* or of the caller.
FairLive ==
    /\ WF_vars(\E s \in DOMAIN sock : sock[s].aborted /\ SockError(s))
    /\ WF_vars(StartResumes)
    /\ WF_vars(\E t \in DOMAIN turn : TurnResumes(t) /\ Len(sock') <= MaxSocks)
    /\ WF_vars(\E s \in DOMAIN sock : ConnectTimeout(s))
    /\ WF_vars(\E id \in DOMAIN turn : RequestTimeout(id))
    /\ WF_vars(\E t \in DOMAIN turn : ChatTimeout(t))

SpecLive == Init /\ [][NextLive]_vars /\ FairLive

\* Connections coming and going: up to MaxConns connections, which may
\* carry the same call id, handle call_details and ping_pong frames and
\* close in any order, against a gateway that completes the handshake.
NextCalls ==
    \/ StartService
    \/ StartResumes
    \/ \E segment \in CallSegments, uuid \in Uuids :
            Len(session) < MaxConns /\ Connection(segment, uuid)
    \/ \E c \in DOMAIN session, data \in CallDetailsEvents \cup PingPongEvents :
            frames < MaxFrames /\ Message(c, data)
    \/ \E c \in DOMAIN session : Close(c)
    \/ \E c \in DOMAIN session : WsClosing(c)
    \/ \E s \in DOMAIN sock : SockOpen(s)
    \/ \E s \in DOMAIN sock : GwChallenge(s)
    \/ \E s \in DOMAIN sock : GwConnectRes(s, TRUE)

SpecCalls == Init /\ [][NextCalls]_vars

\* Reconnects of the gateway client: content turns of one call against a
\* gateway that closes its socket at any moment, completes or ignores the
\* handshake of a new one, and answers chat requests.
NextReconnect ==
    \/ StartService
    \/ StartResumes
    \/ \E segment \in {CALL_A1}, uuid \in Uuids :
            Len(session) < 1 /\ Connection(segment, uuid)
    \/ \E c \in DOMAIN session, data \in ContentEvents :
            /\ allowFrom = <<>>
            /\ Message(c, data)
            /\ Len(turn') <= MaxBackendTurns /\ Len(sock') <= MaxReconnectSocks
    \/ \E t \in DOMAIN turn : TurnResumes(t) /\ Len(sock') <= MaxReconnectSocks
    \/ \E s \in DOMAIN sock : SockOpen(s)
    \/ \E s \in DOMAIN sock : SockClosed(s)
    \/ \E s \in DOMAIN sock : SockClosing(s)
    \/ \E s \in DOMAIN sock : ConnectTimeout(s)
    \/ \E id \in DOMAIN turn : RequestTimeout(id)
    \/ \E t \in DOMAIN turn : ChatTimeout(t)
    \/ \E s \in DOMAIN sock : GwChallenge(s)
    \/ \E s \in DOMAIN sock : GwConnectRes(s, TRUE)
    \/ \E id \in DOMAIN turn : GwChatRes(id, "run")
    \/ \E s \in DOMAIN sock, id \in DOMAIN turn : GwLifecycle(s, id, "end")

SpecReconnect == Init /\ [][NextReconnect]_vars

\* Order of the gateway's frames for one run (index.ts with
\* gateway-client.ts): the final lifecycle event of a run may reach the
\* client before the answer to chat.send, in the same burst as the answer
\* (before chat() has resumed), or after it
NextAckOrder ==
    \/ StartService
    \/ StartResumes
    \/ \E segment \in {CALL_A1}, uuid \in Uuids :
            Len(session) < 1 /\ Connection(segment, uuid)
    \/ \E c \in DOMAIN session, data \in ContentEvents :
            /\ allowFrom = <<>>
            /\ frames < MaxFrames /\ Message(c, data)
            /\ Len(turn') <= MaxBackendTurns /\ Len(sock') <= MaxSocks
    \/ \E t \in DOMAIN turn : TurnResumes(t) /\ Len(sock') <= MaxSocks
    \/ \E s \in DOMAIN sock : SockOpen(s)
    \/ \E id \in DOMAIN turn : RequestTimeout(id)
    \/ \E t \in DOMAIN turn : ChatTimeout(t)
    \/ \E s \in DOMAIN sock : GwChallenge(s)
    \/ \E s \in DOMAIN sock : GwConnectRes(s, TRUE)
    \/ \E id \in DOMAIN turn : GwChatRes(id, "run")
    \/ \E s \in DOMAIN sock, id \in DOMAIN wire :
            /\ ~wire[id].ended /\ wire[id].snaps < MaxSnapshots
            /\ GwAssistant(s, id, REPLY_WEATHER)
    \/ \E s \in DOMAIN sock, id \in DOMAIN wire, phase \in {"end", "error"} :
            GwLifecycleBeforeAck(s, id, phase)
    \/ \E s \in DOMAIN sock, id \in DOMAIN wire, phase \in {"end", "error"} :
            wire[id].acked /\ ~wire[id].ended /\ GwLifecycle(s, id, phase)

SpecAckOrder == Init /\ [][NextAckOrder]_vars

\* what the gateway streams as the reply of run id
RunReply(id) ==
    IF id = 1 THEN REPLY_WEATHER ELSE REPLY_FAREWELL

\* Two calls on the shared gateway connection: one content turn on each of
\* two connections, in flight together, against a gateway that streams a
\* different reply for each run and ends the runs in any order, or not
\* before their timers fire.
NextShared ==
    \/ StartService
    \/ StartResumes
    \/ \E segment \in {CALL_A1, CALL_B1}, uuid \in Uuids :
            /\ Len(session) < MaxConns
            /\ (Len(session) = 0) = (segment = CALL_A1)
            /\ Connection(segment, uuid)
    \/ \E c \in DOMAIN session, data \in ContentEvents :
            /\ allowFrom = <<>>
            /\ \A t \in DOMAIN turn : turn[t].conn # c
            /\ Message(c, data) /\ Len(sock') <= MaxSocks
    \/ \E t \in DOMAIN turn : TurnResumes(t) /\ Len(sock') <= MaxSocks
    \/ \E s \in DOMAIN sock : SockOpen(s)
    \/ \E t \in DOMAIN turn : ChatTimeout(t)
    \/ \E s \in DOMAIN sock : GwChallenge(s)
    \/ \E s \in DOMAIN sock : GwConnectRes(s, TRUE)
    \/ \E id \in DOMAIN turn : GwChatRes(id, "run")
    \/ \E s \in DOMAIN sock, id \in DOMAIN wire :
            /\ wire[id].acked /\ wire[id].snaps < MaxSnapshots
            /\ GwAssistant(s, id, RunReply(id))
    \/ \E s \in DOMAIN sock, id \in DOMAIN wire : GwLifecycle(s, id, "end")

SpecShared == Init /\ [][NextShared]_vars

InitStore ==
    /\ variant = "store"
    /\ InitCommon

\* Call sessions of the session-store server (part_001)
NextStore ==
    \/ StoreStart
    \/ \E ok \in BOOLEAN : DepsLoaded(ok)
    \/ StoreStartResumes
    \/ \E segment \in CallSegments, uuid \in Uuids :
            /\ Len(session) < MaxConns
            /\ StoreConnection(segment, uuid, SessionIds[Len(session) + 1])
    \/ \E c \in DOMAIN session, data \in InboundFrames :
            frames < MaxFrames /\ Message(c, data) /\ Len(turn') <= MaxTurns
    \/ \E t \in DOMAIN turn : TurnResumes(t)
    \/ \E t \in DOMAIN turn, ok \in BOOLEAN : EnsureDone(t, ok)
    \/ \E t \in DOMAIN turn : SaveDone(t)
    \/ \E t \in DOMAIN turn, result \in AgentResults : AgentDone(t, result)
    \/ \E t \in DOMAIN turn : AgentFails(t)
    \/ \E c \in DOMAIN session : Close(c)
    \/ \E c \in DOMAIN session : WsClosing(c)
    \/ StoreStop
    \/ StoreWssClosed

SpecStore == InitStore /\ [][NextStore]_vars

\* The session store under overlapping turns (part_001): up to MaxStoreConns
\* connections, which may carry the same call id, run one content turn each
\* with no allowlist.  The first two calls overlap and the awaits of their
\* turns settle in any order; a third call comes once both turns are over.
\* A caller may hang up at any moment (the socket leaves OPEN, its 'close'
\* follows in a later task) and the server may be stopped and started
\* again.
NextStoreTurns ==
    \/ StoreStart
    \/ DepsLoaded(TRUE)
    \/ StoreStartResumes
    \/ \E segment \in {CALL_A1, CALL_B1}, uuid \in Uuids :
            /\ Len(session) < MaxStoreConns /\ Len(session) < Len(SessionIds)
            /\ Len(session) < 2 \/ (Len(turn) = 2 /\ \A t \in DOMAIN turn : turn[t].pc = "done")
            /\ StoreConnection(segment, uuid, SessionIds[Len(session) + 1])
    \/ \E c \in DOMAIN session, data \in {e \in ContentEvents : e.response_id = 1} :
            /\ allowFrom = <<>>
            /\ \A t \in DOMAIN turn : turn[t].conn # c
            /\ Message(c, data)
    \/ \E t \in DOMAIN turn : TurnResumes(t)
    \/ \E t \in DOMAIN turn : EnsureDone(t, TRUE)
    \/ \E t \in DOMAIN turn : SaveDone(t)
    \/ \E t \in DOMAIN turn : AgentDone(t, [payloads |-> <<[text |-> REPLY_WEATHER]>>])
    \/ \E t \in DOMAIN turn : AgentFails(t)
    \/ \E c \in DOMAIN session : Close(c)
    \/ \E c \in DOMAIN session : WsClosing(c)
    \/ StoreStop
    \/ StoreWssClosed

SpecStoreTurns == InitStore /\ [][NextStoreTurns]_vars

\* Caller authorization as a pure function (config.ts): every phone argument
\* of PhoneInputs against every allowlist of PhoneAllowLists
InitAuthz ==
    /\ variant = "gateway"
    /\ allowFrom \in PhoneAllowLists
    /\ authz \in {[phone |-> p, normalized |-> <<>>, allowed |-> <<>>] : p \in PhoneInputs}
    /\ InitServer

NextAuthz ==
    \/ NormalizeInput
    \/ NormalizeResult
    \/ CheckCaller

SpecAuthz == InitAuthz /\ [][NextAuthz]_vars

\* ------------------------------------------------------------------------
\* Properties of call admission and the call session
\* ------------------------------------------------------------------------

\* C1: with a non-empty allowlist, a response_required or reminder_required
\* event handled while the session is not authorized is answered with
\* exactly one response frame (the holding text, the event's response_id,
\* end_call false) and starts no backend request; and in every reachable
\* state every backend request that was started belongs to a session an
\* approving call_details event has authorized.
HoldsTurnsUntilApproved ==
    /\ [](Len(allowFrom) > 0 =>
            /\ \A t \in DOMAIN turn : session[turn[t].conn].authorized
            /\ \A id \in DOMAIN wire : id \in DOMAIN turn)
    /\ [][\A c \in DOMAIN session, data \in TurnEvents :
            (Len(allowFrom) > 0 /\ ~session[c].authorized /\ Message(c, data)) =>
                /\ out'[c] = <<[response_type |-> "response",
                                response_id |-> data.response_id,
                                content |-> HOLDING_TEXT,
                                content_complete |-> TRUE,
                                end_call |-> FALSE]>>
                /\ UNCHANGED <<turn, wire, pendingRequests, pendingChats>>]_vars

\* C1 witness: an unauthorized session under a non-empty allowlist has just
\* been sent the holding frame of a turn event with response_id 1
HoldingSent ==
    \E c \in DOMAIN session :
        /\ Len(allowFrom) > 0 /\ ~session[c].authorized
        /\ out[c] = <<[response_type |-> "response", response_id |-> 1,
                       content |-> HOLDING_TEXT, content_complete |-> TRUE,
                       end_call |-> FALSE]>>

\* C2: once a call_details event of a connection has been denied, no later
\* event of that connection has a backend request sent for it.
RejectedIsTerminal ==
    [][\A c \in DOMAIN session :
          rejected[c] => \A id \in DOMAIN wire' \ DOMAIN wire : turn'[id].conn # c]_vars

\* C3: a call_details event whose checked number (to_number of an outbound
\* call, from_number otherwise) is not allowed is answered with exactly one
\* response frame, the rejection with end_call true, and nothing else is
\* sent; no backend request starts and the session (authorized, sessionKey,
\* transcript) is left as it was.
DenialOnlyRejects ==
    [][\A c \in DOMAIN session, data \in CallDetailsEvents :
          LET call == IF "call" \in DOMAIN data THEN data.call ELSE EmptyObj
              number == IF "direction" \in DOMAIN call /\ call.direction = "outbound"
                        THEN orEmpty(call, "to_number")
                        ELSE orEmpty(call, "from_number")
          IN  (~isAllowedCaller(number, allowFrom) /\ Message(c, data)) =>
                  /\ out'[c] = <<[response_type |-> "response", response_id |-> 0,
                                  content |-> REJECT_TEXT, content_complete |-> TRUE,
                                  end_call |-> TRUE]>>
                  /\ \A i \in DOMAIN session \ {c} : out'[i] = <<>>
                  /\ session'[c].authorized = session[c].authorized
                  /\ session'[c].sessionKey = session[c].sessionKey
                  /\ session'[c].transcript = session[c].transcript
                  /\ UNCHANGED <<turn, wire, pendingRequests, pendingChats>>]_vars

\* C3 witness: a session that was never authorized has just been sent the
\* rejection frame
DeniedAnswered ==
    \E c \in DOMAIN session :
        /\ rejected[c] /\ ~session[c].authorized
        /\ out[c] = <<[response_type |-> "response", response_id |-> 0,
                       content |-> REJECT_TEXT, content_complete |-> TRUE,
                       end_call |-> TRUE]>>

\* C4: a call_details event is decided on to_number when its direction is
\* "outbound" and on from_number otherwise, and an approved session is keyed
\* by that same number (by the call id when the number is absent), in the
\* session-store server too.
ChecksFarParty ==
    [][\A c \in DOMAIN session, data \in CallDetailsEvents :
          LET call == IF "call" \in DOMAIN data THEN data.call ELSE EmptyObj
              number == IF "direction" \in DOMAIN call /\ call.direction = "outbound"
                        THEN orEmpty(call, "to_number")
                        ELSE orEmpty(call, "from_number")
          IN  Message(c, data) =>
                  IF isAllowedCaller(number, allowFrom)
                  THEN /\ session'[c].authorized
                       /\ session'[c].sessionKey =
                              RETELL_PREFIX \o normalizePhone(
                                  IF number # <<>> THEN number ELSE session[c].callId)
                  ELSE /\ session'[c].authorized = session[c].authorized
                       /\ out'[c][1].end_call]_vars

\* whatever event is handled, a denied call_details event included.
AuthorizedIsMonotonic ==
    [][\A c \in DOMAIN session : session[c].authorized => session'[c].authorized]_vars

\* C6 witness: an authorized session has just been sent the rejection of a
\* later call_details event and is still authorized
DeniedAfterApproval ==
    \E c \in DOMAIN session :
        /\ session[c].authorized /\ rejected[c]
        /\ out[c] = <<[response_type |-> "response", response_id |-> 0,
                       content |-> REJECT_TEXT, content_complete |-> TRUE,
                       end_call |-> TRUE]>>

\* C7: a session transcript never holds more than 10 entries, and a content
\* turn (a turn event that passes the authorization gate and carries a last
\* user message), the first of its call or a later one, leaves it equal to
\* the last min(10, n) entries of the event's n-entry transcript, in order.
TranscriptIsLastTen ==
    /\ [](\A c \in DOMAIN session : Len(session[c].transcript) <= 10)
    /\ [][\A c \in DOMAIN session, data \in ContentEvents :
            LET n == Len(data.transcript)
                m == IF n < 10 THEN n ELSE 10
            IN  ((session[c].authorized \/ Len(allowFrom) = 0) /\ Message(c, data)) =>
                    /\ Len(turn') = Len(turn) + 1
                    /\ session'[c].transcript = [i \in 1..m |-> data.transcript[n - m + i]]]_vars

\* C7 witness: the second content turn of a call, which followed a turn
\* with a 2-entry transcript, has left the session with the last 10 entries
\* of its 12-entry transcript; both turns are under way
TranscriptTrimmed ==
    \E c \in DOMAIN session :
        /\ Len(turn) = 2 /\ turn[1].conn = c /\ turn[2].conn = c
        /\ turn[1].pc # "done" /\ turn[1].rid = 1
        /\ turn[2].pc # "done" /\ turn[2].rid = 2
        /\ Len(session[c].transcript) = 10
        /\ session[c].transcript[1] = [role |-> "agent", content |-> <<"c">>]
        /\ session[c].transcript[10] = [role |-> "user", content |-> <<"l">>]

\* C8: two sessions with different call ids, each approved with a number,
\* whose numbers have the same normalized form hold the same sessionKey; and
\* a backend request carries the sessionKey its session holds when the
\* request is made.
SameCallerSameKey ==
    /\ [](\A c, d \in DOMAIN session :
            (/\ session[c].callId # session[d].callId
             /\ session[c].authorized /\ session[d].authorized
             /\ "fromNumber" \in DOMAIN session[c] /\ "fromNumber" \in DOMAIN session[d]
             /\ normalizePhone(session[c].fromNumber) = normalizePhone(session[d].fromNumber))
                => session[c].sessionKey = session[d].sessionKey)
    /\ [][\A id \in DOMAIN wire' \ DOMAIN wire :
            /\ wire'[id].sessionKey = session'[turn'[id].conn].sessionKey
            /\ session'[turn'[id].conn].sessionKey = session[turn'[id].conn].sessionKey]_vars

\* C8 witness: two calls with different call ids, one approved with the
\* number in E.164 form and one with it in national form, hold the same key,
\* and the gateway has received a request of one of them under that key
SameCallerTwoCalls ==
    \E c, d \in DOMAIN session, id \in DOMAIN wire :
        /\ session[c].callId # session[d].callId
        /\ session[c].authorized /\ session[d].authorized
        /\ "fromNumber" \in DOMAIN session[c] /\ "fromNumber" \in DOMAIN session[d]
        /\ session[c].fromNumber = P_ALLOWED
        /\ session[d].fromNumber = P_ALLOWED_LOCAL
        /\ session[c].sessionKey = session[d].sessionKey
        /\ turn[id].conn \in {c, d}
        /\ wire[id].sessionKey = RETELL_PREFIX \o P_ALLOWED

\* C9: two sessions whose caller identities differ (numbers with different
\* normalized forms, or no number on either and different call ids) never
\* hold the same sessionKey.
SessionsAreIsolated ==
    \A c, d \in DOMAIN session :
        LET cNumber == orEmpty(session[c], "fromNumber")
            dNumber == orEmpty(session[d], "fromNumber")
        IN  (\/ /\ cNumber # <<>> /\ dNumber # <<>>
                /\ normalizePhone(cNumber) # normalizePhone(dNumber)
             \/ /\ cNumber = <<>> /\ dNumber = <<>>
                /\ session[c].callId # session[d].callId)
                => session[c].sessionKey # session[d].sessionKey

\* C10: a ping_pong event is answered with exactly one ping_pong frame that
\* carries the event's timestamp, nothing else is sent, no session changes
\* and no backend request starts or is touched; this holds in every state
\* the event arrives in, a state with a backend request of the same call in
\* flight included.
PingIsEchoed ==
    [][\A c \in DOMAIN session, data \in PingPongEvents :
          Message(c, data) =>
              /\ out'[c] = <<[response_type |-> "ping_pong", timestamp |-> data.timestamp]>>
              /\ \A i \in DOMAIN session \ {c} : out'[i] = <<>>
              /\ session' = session
              /\ UNCHANGED <<turn, wire, pendingRequests, pendingChats>>]_vars

\* C10 witness: a ping has just been answered on a connection whose content
\* turn is waiting for the backend
PongWhileInFlight ==
    \E c \in DOMAIN session, t \in DOMAIN turn :
        /\ turn[t].conn = c /\ turn[t].pc = "await_run" /\ turn[t].wake = "none"
        /\ out[c] = <<[response_type |-> "ping_pong", timestamp |-> 2]>>

\* ------------------------------------------------------------------------
\* Properties of content turns and the gateway client
\* ------------------------------------------------------------------------

\* C11: the response frame of a content turn whose backend request resolved
\* carries the reply text (the fixed fallback when the reply is empty), the
\* turn's response_id, and end_call true exactly when the lower-cased text
\* contains "goodbye", "talk to you later", "bye for now" or "have a good";
\* the fixed timeout and fallback texts are sent with end_call false.
EndsCallOnFarewell ==
    [][\A t \in DOMAIN turn :
          (/\ turn[t].pc = "await_run" /\ turn[t].wake = "ok"
           /\ wsOpen[turn[t].conn] /\ turn'[t].pc = "done" /\ TurnResumes(t)) =>
              LET sent == out'[turn[t].conn]
                  text == turn[t].result.text
              IN  /\ Len(sent) = 1
                  /\ sent[1].response_type = "response"
                  /\ sent[1].response_id = turn[t].rid
                  /\ sent[1].content = IF text # <<>> THEN text ELSE NOT_SURE_TEXT
                  /\ \A lowered \in {toLowerCase(sent[1].content)} :
                        sent[1].end_call <=>
                          \/ includes(lowered, <<"g","o","o","d","b","y","e">>)
                          \/ includes(lowered, <<"t","a","l","k"," ","t","o"," ","y","o","u"," ","l","a","t","e","r">>)
                          \/ includes(lowered, <<"b","y","e"," ","f","o","r"," ","n","o","w">>)
                          \/ includes(lowered, <<"h","a","v","e"," ","a"," ","g","o","o","d">>)
                  /\ sent[1].content \in {TOO_LONG_TEXT, NOT_SURE_TEXT, WENT_WRONG_TEXT,
                                          INTERRUPTED_TEXT, OUT_OF_TIME_TEXT}
                        => ~sent[1].end_call]_vars

\* C11 witness: the reply "Goodbye!", which matches only once lower-cased,
\* has just been sent with end_call true
FarewellEndsCall ==
    \E c \in DOMAIN session :
        out[c] = <<[response_type |-> "response", response_id |-> 1,
                    content |-> REPLY_GOODBYE, content_complete |-> TRUE,
                    end_call |-> TRUE]>>

\* C12: when the timer of a chat request fires because the backend stayed
\* silent, either on the chat.send request (no acknowledgement) or on the
\* run (acknowledged, no lifecycle event), chat() resolves with the "took
\* too long" text and aborted true: it neither throws nor rejects.
SilentBackendResolvesAborted ==
    [][\A t \in DOMAIN turn :
          (/\ turn[t].pc \in {"await_ack", "await_run"} /\ turn[t].wake = "none"
           /\ (RequestTimeout(t) \/ ChatTimeout(t))) =>
              /\ turn'[t].wake = "ok"
              /\ turn'[t].result = [text |-> <<"S","o","r","r","y",","," ","I"," ","t","o","o","k"," ","t","o","o"," ","l","o","n","g","."," ","C","a","n"," ","y","o","u"," ","t","r","y"," ","a","g","a","i","n","?">>,
                                    aborted |-> TRUE]]_vars

\* C13: a lifecycle event with phase end, done, error or aborted for a run
\* that is pending resolves its chat request and removes it from the pending
\* table; the result is the accumulated text without flag (end, done), the
\* accumulated text or "Sorry, something went wrong." with error true
\* (error), the accumulated text or "Response was interrupted." with aborted
\* true (aborted).  The request is never rejected.
LifecycleResolvesNeverRejects ==
    [][\A s \in DOMAIN sock, id \in DOMAIN pendingChats,
          phase \in {"end", "done", "error", "aborted"} :
          GwLifecycle(s, id, phase) =>
              LET entry == pendingChats[id]
                  acc == IF entry.chunks = <<>> THEN <<>> ELSE trim(entry.chunks[1])
              IN  /\ id \notin DOMAIN pendingChats'
                  /\ turn'[entry.turn].wake = "ok"
                  /\ turn'[entry.turn].result =
                        IF phase = "error"
                        THEN [text |-> IF acc = <<>> THEN WENT_WRONG_TEXT ELSE acc,
                              error |-> TRUE]
                        ELSE IF phase = "aborted"
                        THEN [text |-> IF acc = <<>> THEN INTERRUPTED_TEXT ELSE acc,
                              aborted |-> TRUE]
                        ELSE [text |-> acc]]_vars

\* C13 witness: one run was aborted before any text arrived and resolved
\* with the fallback, while another one has resolved with its text and the
\* error flag
ResolvedWithFlags ==
    \E t, u \in DOMAIN turn :
        /\ turn[t].wake = "ok"
        /\ turn[t].result = [text |-> INTERRUPTED_TEXT, aborted |-> TRUE]
        /\ turn[u].wake = "ok"
        /\ turn[u].result = [text |-> REPLY_WEATHER, error |-> TRUE]

\* C14 (as stated): an assistant event for a pending run makes its text the
\* accumulated text of the run, whatever was accumulated before; a run
\* resolves with the accumulated text, trimmed; and an assistant event for a
\* run that is not pending changes no accumulated text and resolves nothing.
LatestSnapshotWins ==
    [][\A s \in DOMAIN sock, id \in DOMAIN wire, text \in ReplyTexts :
          GwAssistant(s, id, text) =>
              /\ turn' = turn
              /\ DOMAIN pendingChats' = DOMAIN pendingChats
              /\ \A other \in DOMAIN pendingChats \ {id} :
                    pendingChats'[other] = pendingChats[other]
              /\ id \in DOMAIN pendingChats => join(pendingChats'[id].chunks) = text]_vars

\* C14 (amended): as above, but an assistant event whose text is empty
\* leaves the accumulated text of the run as it was.
LatestNonEmptySnapshotWins ==
    /\ [][\A s \in DOMAIN sock, id \in DOMAIN wire, text \in ReplyTexts :
            GwAssistant(s, id, text) =>
                /\ turn' = turn
                /\ DOMAIN pendingChats' = DOMAIN pendingChats
                /\ \A other \in DOMAIN pendingChats \ {id} :
                      pendingChats'[other] = pendingChats[other]
                /\ id \in DOMAIN pendingChats =>
                      join(pendingChats'[id].chunks) =
                          IF text # <<>> THEN text ELSE join(pendingChats[id].chunks)]_vars
    /\ [][\A s \in DOMAIN sock, id \in DOMAIN pendingChats :
            GwLifecycle(s, id, "end") =>
                turn'[pendingChats[id].turn].result.text = trim(join(pendingChats[id].chunks))]_vars

\* C14 witness: the gateway has streamed two snapshots of a pending run, and
\* the run holds the weather reply alone
HoldsLatestSnapshot ==
    \E id \in DOMAIN pendingChats \cap DOMAIN wire :
        /\ wire[id].snaps = 2
        /\ pendingChats[id].chunks = <<REPLY_WEATHER>>

\* C15: a run is in the pending table exactly while its chat request is
\* unresolved; its timer firing or a terminal lifecycle event arriving,
\* whichever comes first, resolves the request and removes the entry; and
\* once the request is resolved no later step (the completion arriving after
\* the timeout, a timer, any other gateway frame) changes its result,
\* resolves it again or puts the run back into the table.
ResolvedExactlyOnce ==
    /\ [](\A id \in DOMAIN pendingChats :
            /\ turn[pendingChats[id].turn].pc = "await_run"
            /\ turn[pendingChats[id].turn].wake = "none"
            /\ turn[pendingChats[id].turn].runId = id)
    /\ [](\A t \in DOMAIN turn :
            (turn[t].pc = "await_run" /\ turn[t].wake = "none")
                => turn[t].runId \in DOMAIN pendingChats)
    /\ [][\A t \in DOMAIN turn :
            (/\ turn[t].pc = "await_run" /\ turn[t].wake = "none"
             /\ \/ ChatTimeout(t)
                \/ \E s \in DOMAIN sock, phase \in {"end", "done", "error", "aborted"} :
                      GwLifecycle(s, turn[t].runId, phase)) =>
                /\ turn'[t].wake = "ok"
                /\ turn[t].runId \notin DOMAIN pendingChats']_vars
    /\ [][\A t \in DOMAIN turn :
            (turn[t].pc = "await_run" /\ turn[t].wake = "ok") =>
                /\ turn[t].runId \notin DOMAIN pendingChats'
                /\ turn'[t] = turn[t] \/ turn'[t].pc = "done"]_vars
    /\ [][\A t \in DOMAIN turn :
            turn[t].pc = "done" => (turn'[t] = turn[t] /\ t \notin DOMAIN pendingChats')]_vars

\* C15 witness: the timer has resolved a request whose run the gateway has
\* acknowledged and not ended, so that its completion event can still arrive
TimedOutBeforeCompletion ==
    \E t \in DOMAIN turn \cap DOMAIN wire :
        /\ turn[t].pc = "await_run" /\ turn[t].wake = "ok"
        /\ turn[t].result = [text |-> TOO_LONG_TEXT, aborted |-> TRUE]
        /\ wire[t].acked

\* C16: with the content turns of two calls in flight together on the
\* shared gateway connection, an agent event of one run leaves every other
\* turn and every other pending chat as they were, and the response frame
\* that ends a turn goes out on the connection of that turn only, with the
\* turn's response_id and the text streamed for the run that turn started
\* (or a fixed text when nothing was streamed or the timer fired), never the
\* text of the other run.
RepliesStayWithTheirRun ==
    /\ [][\A s \in DOMAIN sock, id \in DOMAIN wire :
            (GwAssistant(s, id, RunReply(id)) \/ GwLifecycle(s, id, "end")) =>
                /\ \A t \in DOMAIN turn \ {id} : turn'[t] = turn[t]
                /\ \A other \in DOMAIN pendingChats \ {id} :
                      /\ other \in DOMAIN pendingChats'
                      /\ pendingChats'[other] = pendingChats[other]]_vars
    /\ [][\A t \in DOMAIN turn :
            (/\ turn[t].pc = "await_run" /\ turn[t].wake = "ok"
             /\ turn'[t].pc = "done" /\ TurnResumes(t)) =>
                LET sent == out'[turn[t].conn]
                IN  /\ Len(sent) = 1
                    /\ sent[1].response_id = turn[t].rid
                    /\ sent[1].content \in {RunReply(turn[t].runId), NOT_SURE_TEXT, TOO_LONG_TEXT}
                    /\ \A c \in DOMAIN session \ {turn[t].conn} : out'[c] = <<>>]_vars

\* C16 witness: the run of the second call has ended first and its reply has
\* just been sent on the second connection, while the first call's run is
\* still pending with its own reply accumulated
LaterRunAnsweredFirst ==
    /\ Len(turn) = 2 /\ turn[1].conn # turn[2].conn
    /\ 1 \in DOMAIN pendingChats /\ pendingChats[1].chunks = <<REPLY_WEATHER>>
    /\ turn[2].pc = "done"
    /\ Len(out[turn[2].conn]) = 1
    /\ out[turn[2].conn][1].content = REPLY_FAREWELL
    /\ out[turn[2].conn][1].end_call
    /\ out[turn[1].conn] = <<>>

\* C17: the step that accepts a connection sends exactly one frame on it,
\* the config handshake with auto_reconnect and call_details true, and
\* handles no inbound frame; no later step sends a config frame on that
\* connection again.  Every response and ping_pong frame of a connection is
\* therefore sent after its handshake.
HandshakeFirstAndOnce ==
    /\ [][\A c \in DOMAIN session' \ DOMAIN session :
            /\ out'[c] = <<[response_type |-> "config",
                            config |-> [auto_reconnect |-> TRUE, call_details |-> TRUE]]>>
            /\ frames' = frames
            /\ turn' = turn]_vars
    /\ [][\A c \in DOMAIN session :
            \A i \in DOMAIN out'[c] : out'[c][i].response_type # "config"]_vars

\* C17 witness: a second connection has just been accepted and sent its
\* handshake, after the first one was answered and authorized
SecondCallGreetedWithConfig ==
    /\ Len(session) = 2
    /\ session[1].authorized
    /\ out[1] = <<>>
    /\ out[2] = <<[response_type |-> "config",
                   config |-> [auto_reconnect |-> TRUE, call_details |-> TRUE]]>>

\* ------------------------------------------------------------------------
\* Properties of turns under failures
\* ------------------------------------------------------------------------
\* C18: every turn event that is handled is answered with exactly one
\* response frame carrying its response_id, at once or by the step that
\* ends the turn it starts; every turn that is started ends, whatever the
\* gateway, the caller and the service do (from every state on, a state
\* follows in which no turn that was started is unended); and no other
\* step sends a frame.
EveryTurnIsAnswered ==
    /\ [][\A c \in DOMAIN session, data \in ContentEvents \cup PromptEvents :
            Message(c, data) =>
                \/ /\ turn' = turn
                   /\ Len(out'[c]) = 1
                   /\ out'[c][1].response_type = "response"
                   /\ out'[c][1].response_id = data.response_id
                \/ /\ out'[c] = <<>>
                   /\ Len(turn') = Len(turn) + 1
                   /\ turn'[Len(turn')].conn = c
                   /\ turn'[Len(turn')].rid = data.response_id
                   /\ turn'[Len(turn')].pc # "done"]_vars
    /\ []<>(\A t \in DOMAIN turn : turn[t].pc = "done")
    /\ [][\A t \in DOMAIN turn :
            turn[t].pc # "done" /\ turn'[t].pc = "done" =>
                /\ Len(out'[turn[t].conn]) = 1
                /\ out'[turn[t].conn][1].response_type = "response"
                /\ out'[turn[t].conn][1].response_id = turn[t].rid]_vars
    /\ [][\A t \in DOMAIN turn : turn[t].pc = "done" => turn'[t].pc = "done"]_vars
    /\ [][(/\ frames' = frames /\ Len(session') = Len(session)
           /\ \A t \in DOMAIN turn : turn'[t].pc = "done" => turn[t].pc = "done")
            => \A c \in DOMAIN out' : out'[c] = <<>>]_vars

\* C18, as it holds: the same, except that the step that ends a turn sends
\* the turn's response frame only if the telephony socket of the call is
\* still open (and the server context still exists); a turn that ends after
\* its call has gone sends nothing.
EveryTurnOfAnOpenCallIsAnswered ==
    /\ [][\A c \in DOMAIN session, data \in ContentEvents \cup PromptEvents :
            Message(c, data) =>
                \/ /\ turn' = turn
                   /\ Len(out'[c]) = 1
                   /\ out'[c][1].response_type = "response"
                   /\ out'[c][1].response_id = data.response_id
                \/ /\ out'[c] = <<>>
                   /\ Len(turn') = Len(turn) + 1
                   /\ turn'[Len(turn')].conn = c
                   /\ turn'[Len(turn')].rid = data.response_id
                   /\ turn'[Len(turn')].pc # "done"]_vars
    /\ []<>(\A t \in DOMAIN turn : turn[t].pc = "done")
    /\ [][\A t \in DOMAIN turn :
            turn[t].pc # "done" /\ turn'[t].pc = "done" =>
                IF wsOpen[turn[t].conn] /\ ctx
                THEN /\ Len(out'[turn[t].conn]) = 1
                     /\ out'[turn[t].conn][1].response_type = "response"
                     /\ out'[turn[t].conn][1].response_id = turn[t].rid
                ELSE out'[turn[t].conn] = <<>>]_vars
    /\ [][\A t \in DOMAIN turn : turn[t].pc = "done" => turn'[t].pc = "done"]_vars
    /\ [][(/\ frames' = frames /\ Len(session') = Len(session)
           /\ \A t \in DOMAIN turn : turn'[t].pc = "done" => turn[t].pc = "done")
            => \A c \in DOMAIN out' : out'[c] = <<>>]_vars

\* C18 witness: stop() has disconnected the gateway client under the
\* pending run of the call's second turn, the chat timer has fired, and the
\* turn has just been answered on the call's socket, which is still open;
\* the first turn is still under way
AnsweredWhileStopping ==
    /\ start.pc = "stopping"
    /\ Len(turn) = 2 /\ turn[1].pc # "done" /\ turn[2].pc = "done"
    /\ wsOpen[turn[2].conn]
    /\ out[turn[2].conn] = <<[response_type |-> "response", response_id |-> 2,
                              content |-> TOO_LONG_TEXT, content_complete |-> TRUE,
                              end_call |-> FALSE]>>

\* C19: when the backend request of a content turn has failed by throwing
\* (the reconnect was rejected or timed out, chat.send was not acknowledged
\* in time, or its response carried no run id) and the call's socket is
\* open, the step that resumes the turn sends exactly one frame on the
\* call's connection: the fixed apology with the turn's response_id and
\* end_call false.  The step leaves every session, every socket of a call
\* and the call registry as they were, and starts no backend request.
ThrownFailureIsApologizedFor ==
    [][\A t \in DOMAIN turn :
        (/\ turn[t].pc # "done"
         /\ \/ turn[t].wake = "err"
            \/ /\ turn[t].pc = "await_ack" /\ turn[t].wake = "ok"
               /\ "runId" \notin DOMAIN turn[t].response
         /\ wsOpen[turn[t].conn]
         /\ TurnResumes(t)) =>
            /\ out'[turn[t].conn] =
                 <<[response_type |-> "response", response_id |-> turn[t].rid,
                    content |-> <<"S","o","r","r","y",","," ","I"," ","h","a","d"," ","a"," ","b","r","i","e","f"," ","h","i","c","c","u","p","."," ","C","a","n"," ","y","o","u"," ","s","a","y"," ","t","h","a","t"," ","a","g","a","i","n","?">>,
                    content_complete |-> TRUE, end_call |-> FALSE]>>
            /\ turn'[t].pc = "done"
            /\ session' = session
            /\ wsOpen' = wsOpen
            /\ activeCalls' = activeCalls
            /\ pendingRequests' = pendingRequests
            /\ pendingChats' = pendingChats
            /\ wire' = wire
            /\ sock' = sock]_vars

\* C19 witness: the second turn of a call has just been answered with the
\* apology, after the first turn of the same call was over
ApologizedOnSecondTurn ==
    /\ Len(turn) = 2 /\ turn[1].pc = "done" /\ turn[2].pc = "done"
    /\ turn[1].conn = turn[2].conn
    /\ wsOpen[turn[2].conn]
    /\ Len(out[turn[2].conn]) = 1
    /\ out[turn[2].conn][1].content = HICCUP_TEXT
    /\ ~out[turn[2].conn][1].end_call

\* C20: a turn event that passes the authorization gate (the session is
\* authorized or the allowlist is empty) and whose transcript is absent,
\* empty, made of agent entries only, or ends its user entries with an
\* empty one, is answered in the same step with exactly one frame, the
\* prompt for input with the event's response_id and end_call false; the
\* step starts no turn, registers no backend request, sends nothing to the
\* gateway and leaves every session, its transcript included, as it was.
EmptyTurnIsPromptedFor ==
    [][\A c \in DOMAIN session, data \in PromptEvents :
        (/\ session[c].authorized \/ Len(allowFrom) = 0
         /\ Message(c, data)) =>
            /\ out'[c] =
                 <<[response_type |-> "response", response_id |-> data.response_id,
                    content |-> <<"I","'","m"," ","h","e","r","e","!"," ","W","h","a","t",
                                  " ","c","a","n"," ","I"," ","h","e","l","p"," ","y","o",
                                  "u"," ","w","i","t","h","?">>,
                    content_complete |-> TRUE, end_call |-> FALSE]>>
            /\ \A other \in DOMAIN out' \ {c} : out'[other] = <<>>
            /\ session' = session
            /\ turn' = turn
            /\ pendingRequests' = pendingRequests
            /\ pendingChats' = pendingChats
            /\ wire' = wire
            /\ sock' = sock]_vars

\* C20 witness: an authorized call under a non-empty allowlist, whose
\* transcript was set by an earlier content turn, has just been prompted
\* for input
PromptedAfterContentTurn ==
    \E c \in DOMAIN session :
        /\ Len(allowFrom) > 0 /\ session[c].authorized
        /\ session[c].transcript # <<>>
        /\ \E t \in DOMAIN turn : turn[t].conn = c
        /\ out[c] = <<[response_type |-> "response", response_id |-> 2,
                       content |-> PROMPT_TEXT, content_complete |-> TRUE,
                       end_call |-> FALSE]>>

\* ------------------------------------------------------------------------
\* Properties of frames that are dropped, of start-up and of the registry
\* ------------------------------------------------------------------------
\* C21: the step that handles a frame that does not parse, or an event whose
\* interaction_type is absent or none of call_details, ping_pong,
\* response_required and reminder_required, sends no frame on any
\* connection, starts no turn, registers no backend request, sends nothing
\* to the gateway, and leaves every session, the registry and every
\* telephony socket (open ones stay open) as they were.
UnusableFrameIsDropped ==
    [][\A c \in DOMAIN session, data \in OtherEvents \cup {Malformed} :
        Message(c, data) =>
            /\ \A other \in DOMAIN out' : out'[other] = <<>>
            /\ session' = session
            /\ rejected' = rejected
            /\ turn' = turn
            /\ pendingRequests' = pendingRequests
            /\ pendingChats' = pendingChats
            /\ wire' = wire
            /\ sock' = sock
            /\ activeCalls' = activeCalls
            /\ wsOpen' = wsOpen /\ wsOpen'[c]]_vars

\* C21 witness: the only call, authorized under a non-empty allowlist, has
\* handled a third frame that was answered with nothing and started no turn
ThirdFrameDropped ==
    /\ Len(session) = 1 /\ Len(allowFrom) > 0
    /\ session[1].authorized /\ wsOpen[1]
    /\ frames = 3
    /\ turn = <<>>
    /\ out[1] = <<>>

\* C22: when the gateway connection of the start routine fails (the socket
\* errors, the handshake is refused, or the connect timer fires), the step
\* that resumes the start routine throws to its caller, creates neither the
\* server context nor a listener (no session exists and none is accepted
\* without the context), and leaves serverRunning false; in every state
\* reached by a start that threw, another start can be made at once.
FailedStartLeavesNothingUp ==
    /\ [][(start.wake = "err" /\ StartResumes) =>
            /\ start'.thrown
            /\ start'.pc = "idle" /\ start'.wake = "none"
            /\ ~ctx' /\ ~serverRunning'
            /\ session' = <<>> /\ activeCalls' = activeCalls]_vars
    /\ [][~ctx => Len(session') = Len(session)]_vars
    /\ [](start.thrown =>
            /\ ~ctx /\ ~serverRunning /\ session = <<>>
            /\ ENABLED StartService)

\* C22 witness: the gateway refused the handshake of the start routine, which
\* has thrown; nothing is up
StartThrewOnRefusedHandshake ==
    /\ start.thrown /\ start.pc = "idle"
    /\ ~ctx /\ ~serverRunning
    /\ Len(sock) = 1 /\ sock[1].answered /\ sock[1].promise = "rejected"
    /\ session = <<>>

\* C23: a call never has two content turns awaiting the backend together,
\* and the step that ends a turn finds every earlier turn of its call
\* already ended, so that response frames leave in the order of the turns.
OneRequestInFlightPerCall ==
    /\ [](\A c \in DOMAIN session :
            Cardinality({t \in DOMAIN turn : turn[t].conn = c /\ turn[t].pc # "done"}) <= 1)
    /\ [][\A t \in DOMAIN turn :
            turn[t].pc # "done" /\ turn'[t].pc = "done" =>
                \A earlier \in 1..(t - 1) :
                    turn[earlier].conn = turn[t].conn => turn[earlier].pc = "done"]_vars

\* C24: while the server context exists, every session in the registry is
\* the session of a connection that is open, and the newest open connection
\* of each call id has its session in the registry.
RegistryHoldsOpenSessions ==
    ctx =>
        /\ \A callId \in DOMAIN activeCalls :
              /\ activeCalls[callId] \in DOMAIN session
              /\ wsOpen[activeCalls[callId]]
              /\ session[activeCalls[callId]].callId = callId
        /\ \A c \in DOMAIN session :
              (/\ wsOpen[c]
               /\ \A later \in DOMAIN session :
                     later > c /\ wsOpen[later] => session[later].callId # session[c].callId)
              => /\ session[c].callId \in DOMAIN activeCalls
                 /\ activeCalls[session[c].callId] = c

\* ------------------------------------------------------------------------
\* Properties of the session store
\* ------------------------------------------------------------------------
\* C25: an entry of the session store, once persisted, stays with the same
\* session id; and a turn that loads the store while the run of an earlier
\* turn is in progress under the same sessionKey takes the session id of
\* that run.
HandleReusedPerKey ==
    /\ [][\A key \in DOMAIN sessionStore :
            key \in DOMAIN sessionStore' /\ sessionStore'[key] = sessionStore[key]]_vars
    /\ [][\A t \in DOMAIN turn :
            (turn[t].pc = "ensure" /\ turn[t].wake = "ok" /\ TurnResumes(t)) =>
                \A earlier \in 1..(t - 1) :
                    (/\ turn[earlier].pc = "run"
                     /\ turn[earlier].key = session[turn[t].conn].sessionKey)
                    => turn'[t].sessionId = turn[earlier].sessionId]_vars

\* ------------------------------------------------------------------------
\* Properties of reconnection
\* ------------------------------------------------------------------------
\* C26: a step that registers a pending request transmits it, on the
\* client's current socket, which is open and has completed the handshake;
\* and a step that finds the client not connected when a request is issued
\* opens a new socket and registers nothing.
RequestSentOnlyWhenConnected ==
    /\ [][\A id \in DOMAIN pendingRequests' \ DOMAIN pendingRequests :
            /\ id \in DOMAIN wire'
            /\ wire'[id].sock = ws'
            /\ sock'[ws'].st = "open"
            /\ sock'[ws'].promise = "resolved"]_vars
    /\ [][\A t \in DOMAIN turn' :
            (/\ t \notin DOMAIN turn \/ turn[t].pc # turn'[t].pc
             /\ turn'[t].pc \in ConnectPcs) =>
                /\ Len(sock') = Len(sock) + 1
                /\ pendingRequests' = pendingRequests
                /\ wire' = wire]_vars

\* ------------------------------------------------------------------------
\* Properties of the caller-authorization functions
\* ------------------------------------------------------------------------

\* C27: normalizePhone is idempotent: applied to its own result it returns
\* that result unchanged, for every phone argument.
NormalizeIsIdempotent ==
    Len(authz.normalized) = 2 => authz.normalized[2] = authz.normalized[1]

\* a punctuated number that got a country-code prefix has been normalized twice
RenormalizedAfterPrefixing ==
    /\ Len(authz.normalized) = 2
    /\ stripPhone(authz.phone) # authz.phone
    /\ authz.normalized[1] # stripPhone(authz.phone)

\* C28: isAllowedCaller is true for every phone when the allowlist is empty;
\* for a non-empty allowlist it is true exactly when the normal form of the
\* phone equals the normal form of some entry. So "+15551234567" matches
\* the entry "5551234567", and a phone that is a part of an entry without
\* having its normal form is denied.
AllowedIffNormalizedMatch ==
    authz.allowed # <<>> =>
        /\ allowFrom = <<>> => authz.allowed[1]
        /\ allowFrom # <<>> =>
              authz.allowed[1] = (\E i \in 1..Len(allowFrom) :
                                     normalizePhone(authz.phone) = normalizePhone(allowFrom[i]))
        /\ authz.phone = P_ALLOWED /\ allowFrom = <<P_ALLOWED_LOCAL>> => authz.allowed[1]
        /\ /\ allowFrom # <<>>
           /\ \A i \in 1..Len(allowFrom) :
                 /\ includes(allowFrom[i], authz.phone)
                 /\ normalizePhone(authz.phone) # normalizePhone(allowFrom[i])
           => ~authz.allowed[1]

\* the first nine digits of the only entry have been denied
PartOfEntryDenied ==
    /\ allowFrom = <<P_ALLOWED>>
    /\ authz.phone = SubSeq(P_ALLOWED_LOCAL, 1, 9)
    /\ authz.allowed = <<FALSE>>

\* C29: normalizePhone keeps the digits and a leading "+" only (a "+" after
\* the first kept character is removed); a result without "+" of length 10
\* is prefixed with "+1", one without "+" of length 11 starting with "1" is
\* prefixed with "+", and every other result is returned as it is.
NormalFormKeepsOnlyLeadingPlus ==
    authz.normalized # <<>> =>
        LET kept == stripPhone(authz.phone)
            isDigit(c) == c \in DIGITS
            stripped == IF kept = <<>> THEN <<>>
                        ELSE <<kept[1]>> \o SelectSeq(Tail(kept), isDigit)
            hasPlus == \E i \in 1..Len(stripped) : stripped[i] = "+"
        IN  authz.normalized[1] =
                IF ~hasPlus /\ Len(stripped) = 10 THEN <<"+", "1">> \o stripped
                ELSE IF ~hasPlus /\ Len(stripped) = 11 /\ stripped[1] = "1"
                     THEN <<"+">> \o stripped
                     ELSE stripped

\* ------------------------------------------------------------------------
\* Properties of the authorized flag
\* ------------------------------------------------------------------------

\* C30 as stated: with an empty allowlist the authorized flag of every
\* session is true from its creation on.
AuthorizedFromCreationWhenOpen ==
    Len(allowFrom) = 0 => \A c \in DOMAIN session : session[c].authorized

\* C30 amended: every session is created with the authorized flag false,
\* whatever the allowlist; with an empty allowlist the flag stays false
\* until a call_details event is handled, and a turn event handled on a
\* session whose flag is still false is not held: it is not answered with
\* the holding text, and one with a user message starts a backend request.
OpenAllowlistAdmitsWithoutFlag ==
    /\ [][\A segment \in CallSegments, uuid \in Uuids :
            Connection(segment, uuid) => ~session'[Len(session')].authorized]_vars
    /\ [][\A c \in DOMAIN session, data \in InboundFrames \ CallDetailsEvents :
            (~session[c].authorized /\ Message(c, data)) => ~session'[c].authorized]_vars
    /\ [][\A c \in DOMAIN session, data \in TurnEvents :
            (Len(allowFrom) = 0 /\ ~session[c].authorized /\ Message(c, data)) =>
                /\ \A i \in DOMAIN out'[c] : out'[c][i].content # HOLDING_TEXT
                /\ data \in ContentEvents =>
                      /\ Len(turn') = Len(turn) + 1
                      /\ turn'[Len(turn')].conn = c]_vars

\* C30 witness: under an empty allowlist a backend request is in progress for
\* a session whose authorized flag is false
TurnOfUnflaggedSession ==
    /\ Len(allowFrom) = 0
    /\ \E t \in DOMAIN turn :
          /\ turn[t].pc # "done"
          /\ ~session[turn[t].conn].authorized

\* ------------------------------------------------------------------------
\* Properties of the gateway client's pending tables and connection
\* ------------------------------------------------------------------------

\* C31: after the handshake has completed, a failure response (ok false)
\* that carries the id of a pending request removes the request from
\* pendingRequests and rejects it in that step, instead of leaving it
\* pending until its own timer fires.
FailureResponseRejectsAtOnce ==
    [][\A id \in DOMAIN pendingRequests :
          (connected /\ GwChatRes(id, "refused")) =>
              /\ id \notin DOMAIN pendingRequests'
              /\ turn'[pendingRequests[id]].wake = "err"]_vars

\* C32: the gateway client holds at most one open socket at a time, its
\* connected flag is true only while the current socket (this.ws) is open,
\* and the flag is not false while the current socket is open with its
\* handshake completed: neither concurrent connect() calls nor a late close
\* event of an earlier socket break this.
OneLiveConnection ==
    /\ \A s1, s2 \in DOMAIN sock :
          sock[s1].st = "open" /\ sock[s2].st = "open" => s1 = s2
    /\ connected => wsIsOpen(sock)
    /\ wsIsOpen(sock) /\ sock[ws].promise = "resolved" => connected

\* C33: the completion of a run is not lost to message ordering: a chat
\* request never waits for the events of a run whose final lifecycle event
\* the gateway has already delivered, be it before the answer to chat.send
\* or right after it, before chat() has resumed.
RunOutcomeSurvivesOrdering ==
    \A t \in DOMAIN turn :
        turn[t].pc = "await_run" /\ turn[t].wake = "none" =>
            /\ turn[t].runId \in DOMAIN wire
            /\ ~wire[turn[t].runId].ended

\* C34: the pending tables do not leak.  Every entry of pendingRequests and
\* of pendingChats is eventually removed, also when the gateway socket
\* closes or the client is disconnected while it is pending (from every
\* state on, a state follows in which both tables are empty, so that no
\* entry stays for ever); and in every state the tables hold exactly the
\* requests in flight: the requests that await their answer and the runs
\* that await their final event, so that both are empty when no request is
\* in flight.
PendingTablesDoNotLeak ==
    /\ []<>(DOMAIN pendingRequests = {} /\ DOMAIN pendingChats = {})
    /\ [](DOMAIN pendingRequests =
             {t \in DOMAIN turn : turn[t].pc = "await_ack" /\ turn[t].wake = "none"})
    /\ [](DOMAIN pendingChats =
             {turn[t].runId : t \in {u \in DOMAIN turn :
                                       turn[u].pc = "await_run" /\ turn[u].wake = "none"}})

\* C34 witness: the client has been disconnected and its sockets have
\* closed while a run is pending in pendingChats and, beside it, a request
\* in pendingRequests that was registered on a socket that had left OPEN
\* and was never transmitted
RunPendingAfterDisconnect ==
    /\ ws = 0 /\ ~connected
    /\ \A s \in DOMAIN sock : sock[s].st = "closed"
    /\ DOMAIN pendingChats # {}
    /\ \E id \in DOMAIN pendingRequests : id \notin DOMAIN wire

====
